---- MODULE Spec2Model ----
(***************************************************************************)
(* UnifiedMemoryManager (src/core/unified_memory.py): the SQLite-backed    *)
(* memory store behind a pool of connections, the relevance scorer, the    *)
(* per-owner session buffer and the context assembler.                     *)
(*                                                                         *)
(* Text is a sequence of one-character strings.  A database timestamp is a *)
(* record [date, sep, time]: the text "YYYY-MM-DD<sep>HH:MM:SS", where sep *)
(* is " " for SQLite's CURRENT_TIMESTAMP and "T" for datetime.isoformat(). *)
(* An optional value (Python None / SQL NULL) is a sequence of length 0 or *)
(* 1.  Scores are kept in tenths (3.0 is 30).                              *)
(***************************************************************************)
EXTENDS Integers, Sequences, FiniteSets, TLC

VARIABLES
    now,                \* the wall clock, in ticks (the resolution of CURRENT_TIMESTAMP)
    db,                 \* the committed database: [mem, seq, conv]
    wdb,                \* the open write transaction's view of the database
    pool,               \* DatabasePool.pool: the queue of idle connections
    conn,               \* per thread: the connection it has checked out (or none)
    pc,                 \* per thread: its position inside the method it runs
    loc,                \* per thread: the method's local variables
    short_term_memory,  \* UnifiedMemoryManager.short_term_memory
    probe,              \* the arguments of a direct call of a pure function
    budget,             \* the number of calls the threads may still start
    streak,             \* per (owner, fingerprint): the add_memory calls completed since
                        \* the last delete_memory or cleanup_expired, and the first id returned
    last                \* the call that completed in the last step, and its result

vars == <<now, db, wdb, pool, conn, pc, loc, short_term_memory, probe, budget, streak, last>>

----------------------------------------------------------------------------
(* Bounds of the model *)

TicksPerDay == 2
MaxTime == 3
MaxCalls == 3
MaxTokens == 12

\* The threads of the process: one more than the pool has connections
Threads == {"t1", "t2", "t3", "t4", "t5", "t6"}

\* The threads that make the calls where two callers are enough
Racers == {"t1", "t2"}

----------------------------------------------------------------------------
(* Optional values *)

None == <<>>
Some(x) == <<x>>
IsNone(o) == o = <<>>
Get(o) == o[1]

Min(a, b) == IF a <= b THEN a ELSE b

----------------------------------------------------------------------------
(* Text *)

\* str.lower() on the characters the model uses
Lower(ch) ==
    CASE ch = "A" -> "a"
      [] ch = "B" -> "b"
      [] ch = "C" -> "c"
      [] ch = "F" -> "f"
      [] ch = "K" -> "k"
      [] ch = "S" -> "s"
      [] OTHER -> ch

LowerText(s) == [i \in 1..Len(s) |-> Lower(s[i])]

IsSpace(ch) == ch \in {" ", "\n", "\t"}

\* \w of the re module: letters, digits and the underscore
IsWord(ch) == ch \notin {" ", "\n", "\t", ",", ".", "!", "?", ":", "-", "%"}

RECURSIVE LStrip(_)
LStrip(s) == IF s # <<>> /\ IsSpace(Head(s)) THEN LStrip(Tail(s)) ELSE s

RECURSIVE RStrip(_)
RStrip(s) ==
    IF s # <<>> /\ IsSpace(s[Len(s)]) THEN RStrip(SubSeq(s, 1, Len(s) - 1)) ELSE s

\* str.strip()
Strip(s) == RStrip(LStrip(s))

\* k in s
Contains(s, k) == \E i \in 0..(Len(s) - Len(k)) : SubSeq(s, i + 1, i + Len(k)) = k

\* s.startswith(k)
StartsWith(s, k) == Len(k) <= Len(s) /\ SubSeq(s, 1, Len(k)) = k

\* s[:n] for n >= 0
Prefix(s, n) == SubSeq(s, 1, Min(n, Len(s)))

RECURSIVE Join(_, _)
\* sep.join(parts)
Join(parts, sep) ==
    IF parts = <<>> THEN <<>>
    ELSE IF Len(parts) = 1 THEN parts[1]
    ELSE parts[1] \o sep \o Join(Tail(parts), sep)

RECURSIVE SplitWords(_, _)
\* str.split(): the maximal runs of non-whitespace; cur is the run being read
SplitWords(s, cur) ==
    IF s = <<>> THEN (IF cur = <<>> THEN <<>> ELSE <<cur>>)
    ELSE IF IsSpace(Head(s))
         THEN (IF cur = <<>> THEN <<>> ELSE <<cur>>) \o SplitWords(Tail(s), <<>>)
         ELSE SplitWords(Tail(s), Append(cur, Head(s)))

RECURSIVE SelectChars(_)
\* re.sub(r'[^\w\s]', '', s)
SelectChars(s) ==
    IF s = <<>> THEN <<>>
    ELSE IF IsWord(Head(s)) \/ IsSpace(Head(s))
         THEN <<Head(s)>> \o SelectChars(Tail(s))
         ELSE SelectChars(Tail(s))

Range(f) == {f[i] : i \in DOMAIN f}

----------------------------------------------------------------------------
(* Time *)

\* CURRENT_TIMESTAMP at clock t: "YYYY-MM-DD HH:MM:SS"
CurrentTimestamp(t) == [date |-> t \div TicksPerDay, sep |-> " ", time |-> t % TicksPerDay]

\* datetime.isoformat(): "YYYY-MM-DDTHH:MM:SS"
IsoFormat(t) == [date |-> t \div TicksPerDay, sep |-> "T", time |-> t % TicksPerDay]

\* datetime.fromisoformat(), which accepts either separator
FromIsoFormat(ts) == ts.date * TicksPerDay + ts.time

SepOrd(sep) == IF sep = " " THEN 0 ELSE 1

\* SQLite's comparison of two TEXT values holding timestamps: a < b, byte by byte
TextLess(a, b) ==
    \/ a.date < b.date
    \/ a.date = b.date /\ SepOrd(a.sep) < SepOrd(b.sep)
    \/ a.date = b.date /\ a.sep = b.sep /\ a.time < b.time

\* The characters of the model in code-point order (SQLite's BINARY collation)
Alphabet ==
    <<"\t", "\n", " ", "!", "%", ",", "-", ".", ":", "?",
      "A", "B", "C", "K", "S", "_",
      "a", "b", "c", "d", "e", "f", "h", "i", "k", "l", "m", "n", "o", "p",
      "r", "s", "t", "u", "v", "x", "y", "z">>

CharOrd(ch) == CHOOSE i \in 1..Len(Alphabet) : Alphabet[i] = ch

RECURSIVE StrLess(_, _)
\* a < b for two TEXT values
StrLess(a, b) ==
    IF b = <<>> THEN FALSE
    ELSE IF a = <<>> THEN TRUE
    ELSE IF Head(a) = Head(b) THEN StrLess(Tail(a), Tail(b))
    ELSE CharOrd(Head(a)) < CharOrd(Head(b))

RECURSIVE LikeMatch(_, _)
\* SQLite's s LIKE p: "%" is any run, "_" any character, ASCII letters fold case
LikeMatch(p, s) ==
    IF p = <<>> THEN s = <<>>
    ELSE IF Head(p) = "%"
         THEN \E k \in 0..Len(s) : LikeMatch(Tail(p), SubSeq(s, k + 1, Len(s)))
    ELSE IF s = <<>> THEN FALSE
    ELSE IF Head(p) = "_" THEN LikeMatch(Tail(p), Tail(s))
    ELSE Lower(Head(p)) = Lower(Head(s)) /\ LikeMatch(Tail(p), Tail(s))

----------------------------------------------------------------------------
(* The database: tables memories and conversation_history *)

EmptyDb == [mem |-> {}, seq |-> 0, conv |-> <<>>]

\* A fingerprint of the content as given
_generate_hash_Raw(user_name, content) == user_name \o <<":">> \o content

\* _generate_hash.  SHA-256 is taken to be injective: the digest is
\* represented by the text that is hashed.
_generate_hash(user_name, content) == user_name \o <<":">> \o Strip(LowerText(content))

\* json.dumps / json.loads of a metadata or sentiment dictionary
JsonDumps(d) == [json |-> d]
JsonLoads(t) == t.json

\* SELECT id, access_count FROM memories WHERE user_name = ? AND context_hash = ?
SelectExisting(d, user_name, context_hash) ==
    {r \in d.mem : r.user_name = user_name /\ r.context_hash = context_hash}

\* cursor.fetchone()
FetchOne(rows) ==
    IF rows = {} THEN None
    ELSE Some(CHOOSE r \in rows : \A q \in rows : r.id <= q.id)

\* The UPDATE without access_count = access_count + 1
UpdateStmt_NoIncrement(d, memory_id, importance, is_permanent, t) ==
    [d EXCEPT !.mem =
        {IF r.id = memory_id
         THEN [r EXCEPT !.updated_at = CurrentTimestamp(t),
                        !.last_accessed = CurrentTimestamp(t),
                        !.importance = importance,
                        !.is_permanent = is_permanent]
         ELSE r : r \in d.mem}]

\* An UPDATE that leaves the importance and the permanence as stored
UpdateStmt_KeepsImportance(d, memory_id, importance, is_permanent, t) ==
    [d EXCEPT !.mem =
        {IF r.id = memory_id
         THEN [r EXCEPT !.updated_at = CurrentTimestamp(t),
                        !.last_accessed = CurrentTimestamp(t),
                        !.access_count = @ + 1]
         ELSE r : r \in d.mem}]

\* UPDATE memories SET updated_at = CURRENT_TIMESTAMP, ... WHERE id = ?
UpdateStmt(d, memory_id, importance, is_permanent, t) ==
    [d EXCEPT !.mem =
        {IF r.id = memory_id
         THEN [r EXCEPT !.updated_at = CurrentTimestamp(t),
                        !.last_accessed = CurrentTimestamp(t),
                        !.access_count = @ + 1,
                        !.importance = importance,
                        !.is_permanent = is_permanent]
         ELSE r : r \in d.mem}]

\* The table without its UNIQUE constraint
UniqueViolation_Unenforced(d, user_name, context_hash) == FALSE

\* UNIQUE(user_name, context_hash)
UniqueViolation(d, user_name, context_hash) ==
    \E r \in d.mem : r.user_name = user_name /\ r.context_hash = context_hash

\* The row of INSERT INTO memories (...) VALUES (...), the other columns at
\* their defaults; id INTEGER PRIMARY KEY AUTOINCREMENT
NewRow(d, a, t) ==
    [id |-> d.seq + 1,
     user_name |-> a.user_name,
     memory_type |-> a.memory_type,
     content |-> a.content,
     importance |-> a.importance,
     created_at |-> CurrentTimestamp(t),
     updated_at |-> CurrentTimestamp(t),
     last_accessed |-> CurrentTimestamp(t),
     access_count |-> 1,
     context_hash |-> a.context_hash,
     is_permanent |-> a.is_permanent,
     expires_at |-> a.expires_str,
     metadata |-> a.metadata_json]

InsertStmt(d, a, t) ==
    [d EXCEPT !.mem = @ \cup {NewRow(d, a, t)}, !.seq = @ + 1]

\* expires_at > CURRENT_TIMESTAMP
NotExpired(r, t) == IsNone(r.expires_at) \/ TextLess(CurrentTimestamp(t), Get(r.expires_at))

\* ORDER BY importance DESC, last_accessed DESC; rows that tie come in the
\* order of the scan of idx_memories_user_type: memory_type, then rowid
RowBefore(a, b) ==
    \/ a.importance > b.importance
    \/ a.importance = b.importance /\ TextLess(b.last_accessed, a.last_accessed)
    \/ a.importance = b.importance /\ a.last_accessed = b.last_accessed
         /\ StrLess(a.memory_type, b.memory_type)
    \/ a.importance = b.importance /\ a.last_accessed = b.last_accessed
         /\ a.memory_type = b.memory_type /\ a.id < b.id

RECURSIVE OrderBy(_)
OrderBy(rows) ==
    IF rows = {} THEN <<>>
    ELSE LET first == CHOOSE r \in rows : \A q \in rows \ {r} : RowBefore(r, q)
         IN <<first>> \o OrderBy(rows \ {first})

\* memory = dict(row) with the metadata column decoded
DecodeRow(r) ==
    [r EXCEPT !.metadata = IF IsNone(@) THEN None ELSE Some(JsonLoads(Get(@)))]

\* The query without its condition on the owner
SelectMemories_AnyOwner(d, user_name, memory_type, limit, include_expired, t) ==
    LET rows == {r \in d.mem :
                    /\ (memory_type # <<>> => r.memory_type = memory_type)
                    /\ (~include_expired => NotExpired(r, t))}
        ordered == OrderBy(rows)
    IN [i \in 1..Min(limit, Len(ordered)) |-> DecodeRow(ordered[i])]

\* The query of get_memories, evaluated on database view d at clock t
SelectMemories(d, user_name, memory_type, limit, include_expired, t) ==
    LET rows == {r \in d.mem :
                    /\ r.user_name = user_name
                    /\ (memory_type # <<>> => r.memory_type = memory_type)
                    /\ (~include_expired => NotExpired(r, t))}
        ordered == OrderBy(rows)
    IN [i \in 1..Min(limit, Len(ordered)) |-> DecodeRow(ordered[i])]

\* The rows of DELETE FROM memories WHERE user_name = ? [AND memory_type = ?]
\* [AND content LIKE '%pattern%']
DeleteRows(d, user_name, memory_type, pattern) ==
    {r \in d.mem :
        /\ r.user_name = user_name
        /\ (memory_type # <<>> => r.memory_type = memory_type)
        /\ (pattern # <<>> => LikeMatch(<<"%">> \o pattern \o <<"%">>, r.content))}

\* The DELETE with the comparison turned round
ExpiredRows_Reversed(d, t) ==
    {r \in d.mem : ~IsNone(r.expires_at) /\ TextLess(CurrentTimestamp(t), Get(r.expires_at))}

\* The rows of DELETE FROM memories WHERE expires_at IS NOT NULL
\* AND expires_at < CURRENT_TIMESTAMP
ExpiredRows(d, t) ==
    {r \in d.mem : ~IsNone(r.expires_at) /\ TextLess(Get(r.expires_at), CurrentTimestamp(t))}

DeleteStmt(d, rows) == [d EXCEPT !.mem = @ \ rows]

\* INSERT INTO conversation_history (...); timestamp DEFAULT CURRENT_TIMESTAMP
\* An INSERT that skips a turn whose owner and message are on record
InsertConversation_Dedup(d, user_name, user_message, assistant_response, sentiment, t) ==
    IF \E r \in Range(d.conv) :
          r.user_name = user_name /\ r.user_message = user_message
    THEN d
    ELSE [d EXCEPT !.conv = Append(@,
            [id |-> Len(@) + 1,
             user_name |-> user_name,
             user_message |-> user_message,
             assistant_response |-> assistant_response,
             timestamp |-> CurrentTimestamp(t),
             context_hash |-> _generate_hash(user_name, user_message),
             sentiment |-> IF sentiment = {} THEN None ELSE Some(JsonDumps(sentiment))])]

InsertConversation(d, user_name, user_message, assistant_response, sentiment, t) ==
    [d EXCEPT !.conv = Append(@,
        [id |-> Len(@) + 1,
         user_name |-> user_name,
         user_message |-> user_message,
         assistant_response |-> assistant_response,
         timestamp |-> CurrentTimestamp(t),
         context_hash |-> _generate_hash(user_name, user_message),
         sentiment |-> IF sentiment = {} THEN None ELSE Some(JsonDumps(sentiment))])]

\* ORDER BY timestamp DESC; rows that tie come in the order of
\* idx_conv_user_time, whose entries with equal keys are in rowid order
ConvBefore(a, b) ==
    \/ TextLess(b.timestamp, a.timestamp)
    \/ a.timestamp = b.timestamp /\ a.id < b.id

RECURSIVE OrderConv(_)
OrderConv(rows) ==
    IF rows = {} THEN <<>>
    ELSE LET first == CHOOSE r \in rows : \A q \in rows \ {r} : ConvBefore(r, q)
         IN <<first>> \o OrderConv(rows \ {first})

Reverse(s) == [i \in 1..Len(s) |-> s[Len(s) + 1 - i]]

\* The query of get_recent_conversations and its list(reversed(...))
SelectConversations(d, user_name, limit) ==
    LET rows == {r \in Range(d.conv) : r.user_name = user_name}
        ordered == OrderConv(rows)
        fetched == [i \in 1..Min(limit, Len(ordered)) |->
                      [ordered[i] EXCEPT !.sentiment =
                          IF IsNone(@) THEN None ELSE Some(JsonLoads(Get(@)))]]
    IN Reverse(fetched)

----------------------------------------------------------------------------
(* The relevance scorer *)

\* The stop words of _extract_keywords that are written in ASCII
stop_words ==
    {<<"v", "e">>, <<"v", "e", "y", "a">>, <<"a", "m", "a">>,
     <<"i", "l", "e">>, <<"b", "i", "r">>, <<"b", "u">>, <<"o">>,
     <<"d", "e">>, <<"d", "a">>, <<"k", "i">>, <<"m", "i">>, <<"m", "u">>,
     <<"i", "s", "e">>}

\* _extract_keywords; list(set(words)) is kept as the set
_extract_keywords(text) ==
    {w \in Range(SplitWords(SelectChars(LowerText(text)), <<>>)) :
        Len(w) > 2 /\ w \notin stop_words}

\* A scorer that finds no keyword
KeywordScore_None(content, keywords) == 0

RECURSIVE KeywordScore(_, _)
\* The loop over the keywords: 3.0 for a keyword found in the content and
\* 1.5 more when the content starts with it
KeywordScore(content, keywords) ==
    IF keywords = {} THEN 0
    ELSE LET keyword == CHOOSE k \in keywords : TRUE
             hit == IF Contains(content, keyword)
                    THEN 30 + (IF StartsWith(content, keyword) THEN 15 ELSE 0)
                    ELSE 0
         IN hit + KeywordScore(content, keywords \ {keyword})

\* A bonus that grows with the age
RecencyBonus_Reversed(updated_at, t) ==
    LET days_old == (t - FromIsoFormat(updated_at)) \div TicksPerDay
    IN IF days_old <= 7 THEN 0 ELSE IF days_old <= 30 THEN 10 ELSE 20

\* (datetime.now() - updated_at).days, and the bonus it earns
RecencyBonus(updated_at, t) ==
    LET days_old == (t - FromIsoFormat(updated_at)) \div TicksPerDay
    IN IF days_old <= 7 THEN 20 ELSE IF days_old <= 30 THEN 10 ELSE 0

\* The scorer without the cap on the access bonus
_calculate_relevance_Uncapped(memory, keywords, t) ==
    KeywordScore(LowerText(memory.content), keywords)
        + 2 * memory.importance
        + RecencyBonus(memory.updated_at, t)
        + 5 * memory.access_count

\* _calculate_relevance, in tenths, at clock t
_calculate_relevance(memory, keywords, t) ==
    KeywordScore(LowerText(memory.content), keywords)
        + 2 * memory.importance
        + RecencyBonus(memory.updated_at, t)
        + Min(30, 5 * memory.access_count)

RECURSIVE InsertScored_TiesReversed(_, _)
\* An insertion that puts x before the entries of equal score
InsertScored_TiesReversed(sorted, x) ==
    IF sorted = <<>> THEN <<x>>
    ELSE IF Head(sorted).score > x.score
         THEN <<Head(sorted)>> \o InsertScored_TiesReversed(Tail(sorted), x)
         ELSE <<x>> \o sorted

RECURSIVE InsertScored(_, _)
\* x placed behind every entry whose score is at least x's
InsertScored(sorted, x) ==
    IF sorted = <<>> THEN <<x>>
    ELSE IF Head(sorted).score >= x.score
         THEN <<Head(sorted)>> \o InsertScored(Tail(sorted), x)
         ELSE <<x>> \o sorted

RECURSIVE SortScored(_)
\* list.sort(key=score, reverse=True): descending and stable
SortScored(scored) ==
    IF scored = <<>> THEN <<>>
    ELSE InsertScored(SortScored(SubSeq(scored, 1, Len(scored) - 1)), scored[Len(scored)])

\* get_contextual_memories on the list get_memories returned
ContextualMemories(all_memories, current_message, limit, t) ==
    LET keywords == _extract_keywords(current_message)
        scored_memories ==
            [i \in DOMAIN all_memories |->
                [score |-> _calculate_relevance(all_memories[i], keywords, t),
                 memory |-> all_memories[i]]]
        sorted == SortScored(scored_memories)
    IN IF keywords = {} THEN Prefix(all_memories, limit)
       ELSE [i \in 1..Min(limit, Len(sorted)) |-> sorted[i].memory]

----------------------------------------------------------------------------
(* The scorer on an arbitrary dictionary.  A value of the dictionary is a   *)
(* Python int, a str, None, or absent (the key is missing); a str is either *)
(* a text or the text of a timestamp.  The scorer returns a score or raises.*)

PyAbsent == [type |-> "absent", int |-> 0, str |-> <<>>, stamp |-> None]
PyNone == [type |-> "NoneType", int |-> 0, str |-> <<>>, stamp |-> None]
PyInt(n) == [type |-> "int", int |-> n, str |-> <<>>, stamp |-> None]
PyStr(s) == [type |-> "str", int |-> 0, str |-> s, stamp |-> None]
\* the str that SQLite returns for a TIMESTAMP column
PyStamp(ts) == [type |-> "str", int |-> 0, str |-> <<>>, stamp |-> Some(ts)]

\* memory.get(key, default)
DictGet(memory, key, default) ==
    IF memory[key].type = "absent" THEN default ELSE memory[key]

DigitVal(ch) ==
    CASE ch = "0" -> 0 [] ch = "1" -> 1 [] ch = "2" -> 2 [] ch = "3" -> 3
      [] ch = "4" -> 4 [] ch = "5" -> 5 [] ch = "6" -> 6 [] ch = "7" -> 7
      [] ch = "8" -> 8 [] ch = "9" -> 9 [] OTHER -> -1

IsDigits(s) == s # <<>> /\ \A i \in DOMAIN s : DigitVal(s[i]) >= 0

RECURSIVE DigitsVal(_)
DigitsVal(s) ==
    IF s = <<>> THEN 0
    ELSE 10 * DigitsVal(SubSeq(s, 1, Len(s) - 1)) + DigitVal(s[Len(s)])

\* float(v) and int(v), for an int, None, a text of digits or another text
ToNumber(v) ==
    IF v.type = "int" THEN [exc |-> "", val |-> v.int]
    ELSE IF v.type = "NoneType" THEN [exc |-> "TypeError", val |-> 0]
    ELSE IF IsNone(v.stamp) /\ IsDigits(v.str) THEN [exc |-> "", val |-> DigitsVal(v.str)]
    ELSE [exc |-> "ValueError", val |-> 0]

\* str(v).lower() of the content
StrOf(v) ==
    IF v.type = "NoneType" THEN <<"n", "o", "n", "e">>
    ELSE IF v.type = "str" THEN LowerText(v.str)
    ELSE <<>>

\* bool(v), the test of "if updated_at:"
Truthy(v) ==
    IF v.type = "int" THEN v.int # 0
    ELSE IF v.type = "str" THEN ~IsNone(v.stamp) \/ v.str # <<>>
    ELSE FALSE

\* Lines 280-292: a str is parsed by fromisoformat, whose ValueError is
\* caught; a value of another type fails in the subtraction, whose
\* TypeError is caught
RecencyOfDict(memory, t) ==
    LET updated_at == DictGet(memory, "updated_at", PyNone)
    IN IF Truthy(updated_at) /\ updated_at.type = "str" /\ ~IsNone(updated_at.stamp)
       THEN RecencyBonus(Get(updated_at.stamp), t)
       ELSE 0

\* _calculate_relevance on a dictionary, in tenths: the first conversion
\* that raises ends the call
RelevanceOfDict(memory, keywords, t) ==
    LET content == StrOf(DictGet(memory, "content", PyStr(<<>>)))
        importance == ToNumber(DictGet(memory, "importance", PyInt(5)))
        access_count == ToNumber(DictGet(memory, "access_count", PyInt(0)))
    IN IF importance.exc # "" THEN [exc |-> importance.exc, score |-> 0]
       ELSE IF access_count.exc # "" THEN [exc |-> access_count.exc, score |-> 0]
       ELSE [exc |-> "",
             score |-> KeywordScore(content, keywords)
                          + 2 * importance.val
                          + RecencyOfDict(memory, t)
                          + Min(30, 5 * access_count.val)]

\* Lines 229-243 of get_contextual_memories on a list of dictionaries: an
\* exception of the scorer leaves the loop and the method
RankDicts(all_memories, keywords, limit, t) ==
    LET results == [i \in DOMAIN all_memories |->
                       RelevanceOfDict(all_memories[i], keywords, t)]
        raised == {i \in DOMAIN results : results[i].exc # ""}
        first == CHOOSE i \in raised : \A j \in raised : i <= j
        scored_memories ==
            [i \in DOMAIN all_memories |->
                [score |-> results[i].score, memory |-> all_memories[i]]]
        sorted == SortScored(scored_memories)
    IN IF keywords = {} THEN [exc |-> "", rows |-> Prefix(all_memories, limit)]
       ELSE IF raised # {} THEN [exc |-> results[first].exc, rows |-> <<>>]
       ELSE [exc |-> "",
             rows |-> [i \in 1..Min(limit, Len(sorted)) |-> sorted[i].memory]]

----------------------------------------------------------------------------
(* The session buffer and the context assembler *)

max_short_term == 10

\* A full deque that refuses the new entry
DequeAppend_DropNewest(q, x, maxlen) ==
    IF Len(q) >= maxlen THEN q ELSE Append(q, x)

\* deque(maxlen=maxlen).append(x)
DequeAppend(q, x, maxlen) ==
    IF Len(q) >= maxlen THEN Append(Tail(q), x) ELSE Append(q, x)

\* s[-n:]
LastN(s, n) == SubSeq(s, IF Len(s) > n THEN Len(s) - n + 1 ELSE 1, Len(s))

\* str() of the dict {'type': ..., 'content': ...}
StrDict(d) ==
    <<"{", "'", "t", "y", "p", "e", "'", ":", " ", "'">>
      \o d.type \o
    <<"'", ",", " ", "'", "c", "o", "n", "t", "e", "n", "t", "'", ":", " ", "'">>
      \o d.content \o <<"'", "}">>

HeaderRecent ==
    <<"-", "-", "-", " ", "R", "e", "c", "e", "n", "t", " ", "C", "o", "n",
      "v", "e", "r", "s", "a", "t", "i", "o", "n", " ", "-", "-", "-">>

HeaderMemories ==
    <<"\n", "-", "-", "-", " ", "R", "e", "l", "e", "v", "a", "n", "t", " ",
      "M", "e", "m", "o", "r", "i", "e", "s", " ", "-", "-", "-">>

HeaderSession ==
    <<"\n", "-", "-", "-", " ", "C", "u", "r", "r", "e", "n", "t", " ", "S",
      "e", "s", "s", "i", "o", "n", " ", "-", "-", "-">>

Asena == <<"A", "s", "e", "n", "a", ":", " ">>
Bullet == <<"-", " ">>
Ellipsis == <<".", ".", ".">>

\* The two lines of each turn: f"{user_name}: ..." and f"Asena: ..."
ConvLines(recent, user_name) ==
    [i \in 1..(2 * Len(recent)) |->
        IF i % 2 = 1
        THEN user_name \o <<":", " ">> \o recent[(i + 1) \div 2].user_message
        ELSE Asena \o recent[i \div 2].assistant_response]

\* context_parts of build_context
ContextParts(recent, memories, short_term, user_name) ==
    (IF recent # <<>>
     THEN <<HeaderRecent>> \o ConvLines(recent, user_name) ELSE <<>>)
    \o (IF memories # <<>>
        THEN <<HeaderMemories>>
             \o [i \in DOMAIN memories |-> Bullet \o memories[i].content]
        ELSE <<>>)
    \o (IF short_term # <<>>
        THEN <<HeaderSession>>
             \o [i \in DOMAIN LastN(short_term, 3) |->
                    Bullet \o StrDict(LastN(short_term, 3)[i].content)]
        ELSE <<>>)

\* A truncation to max_tokens characters
Truncate_Tokens(context, max_tokens) ==
    IF Len(context) > max_tokens * 4
    THEN Prefix(context, max_tokens) \o Ellipsis
    ELSE context

\* Lines 437-438: context[:max_tokens * 4] + "..."
Truncate(context, max_tokens) ==
    IF Len(context) > max_tokens * 4
    THEN Prefix(context, max_tokens * 4) \o Ellipsis
    ELSE context

----------------------------------------------------------------------------
(* Connections.  A connection of the pool is in one of four modes:          *)
(*   "auto"  : no transaction is open (sqlite3's autocommit state);         *)
(*   "tx"    : the implicit BEGIN was issued and nothing was read yet;      *)
(*   "read"  : a transaction is open and reads the snapshot snap (WAL);     *)
(*             stale says that another connection has committed since;      *)
(*   "write" : a transaction is open and holds the database's write lock;   *)
(*             its view of the database is wdb.                             *)
(* The sqlite3 module issues BEGIN before INSERT, UPDATE and DELETE; only   *)
(* commit() ends the transaction, and the code never rolls back.            *)

max_connections == 5

CleanConn == [mode |-> "auto", snap |-> EmptyDb, stale |-> FALSE]
NoConn == [mode |-> "none", snap |-> EmptyDb, stale |-> FALSE]

\* What a statement on connection c reads
View(c) ==
    IF c.mode = "write" THEN wdb
    ELSE IF c.mode = "read" THEN c.snap
    ELSE db

\* The connection after a SELECT: an open transaction takes its snapshot
AfterSelect(c) ==
    IF c.mode = "tx" THEN [mode |-> "read", snap |-> db, stale |-> FALSE] ELSE c

\* Some connection other than thread t's holds the write lock
LockedByIdle == \E i \in DOMAIN pool : pool[i].mode = "write"
LockedByThread(t) == \E o \in Threads \ {t} : conn[o].mode = "write"

\* INSERT, UPDATE or DELETE on c can run now: c holds the write lock, or takes it
CanWrite(c, t) ==
    \/ c.mode = "write"
    \/ /\ ~(c.mode = "read" /\ c.stale)
       /\ ~LockedByIdle
       /\ ~LockedByThread(t)

\* INSERT, UPDATE or DELETE on c fails with "database is locked": at once when
\* c's snapshot is stale (SQLITE_BUSY_SNAPSHOT), after busy_timeout (30 s) when
\* the lock belongs to a transaction left open on an idle connection.  A
\* thread that holds the lock commits at once, so waiting for it does not
\* time out.
IsLocked(c, t) ==
    /\ c.mode # "write"
    /\ \/ c.mode = "read" /\ c.stale
       \/ LockedByIdle /\ ~LockedByThread(t)

\* c after the failed statement: the implicit BEGIN stays open
AfterLocked(c) == IF c.mode = "auto" THEN [c EXCEPT !.mode = "tx"] ELSE c

\* c once it holds the write lock
Writer == [mode |-> "write", snap |-> EmptyDb, stale |-> FALSE]

\* The database a write statement on c starts from
Base(c) == IF c.mode = "write" THEN wdb ELSE db

\* Another connection's snapshot after a commit that changed the database
Outdated(c) ==
    IF c.mode = "read" /\ wdb # db THEN [c EXCEPT !.stale = TRUE] ELSE c

----------------------------------------------------------------------------
(* The state after UnifiedMemoryManager.__init__ *)

Users == {<<"A">>, <<"B">>}

NoLoc == [op |-> "", concurrent |-> FALSE, peer |-> None]
NoLast ==
    [op |-> "", t |-> "", args |-> <<>>, ret |-> None, exc |-> "",
     rows |-> <<>>, count |-> 0, text |-> <<>>, concurrent |-> FALSE, peer |-> None]

\* The store, the pool and the session buffers as __init__ leaves them
Fresh ==
    /\ db = EmptyDb
    /\ wdb = EmptyDb
    /\ pool = [i \in 1..max_connections |-> CleanConn]
    /\ conn = [t \in Threads |-> NoConn]
    /\ pc = [t \in Threads |-> "idle"]
    /\ loc = [t \in Threads |-> NoLoc]
    /\ short_term_memory = [u \in Users |-> None]
    /\ streak = <<>>
    /\ last = NoLast

\* The manager after __init__, with n calls of the threads to come
Started(n) == now = 0 /\ probe = [op |-> ""] /\ Fresh /\ budget = n

\* A thread starts another call
Begin == budget > 0 /\ budget' = budget - 1

\* The clock advances
Tick ==
    /\ now < MaxTime
    /\ now' = now + 1
    /\ last' = NoLast
    /\ UNCHANGED <<db, wdb, pool, conn, pc, loc, short_term_memory, probe, budget, streak>>

\* conn.commit() followed by the pool.put(conn) of get_connection's finally
CommitAndPut(t) ==
    /\ db' = wdb
    /\ wdb' = EmptyDb
    /\ pool' = Append([i \in DOMAIN pool |-> Outdated(pool[i])], CleanConn)
    /\ conn' = [o \in Threads |-> IF o = t THEN NoConn ELSE Outdated(conn[o])]
    /\ pc' = [pc EXCEPT ![t] = "idle"]

\* An exception after which the connection is not put back
RaiseAndPut_NoPut(t, c, op, exc, args, concurrent) ==
    /\ pool' = pool
    /\ conn' = [conn EXCEPT ![t] = NoConn]
    /\ pc' = [pc EXCEPT ![t] = "idle"]
    /\ last' = [NoLast EXCEPT !.op = op, !.t = t, !.exc = exc, !.args = args,
                              !.concurrent = concurrent, !.peer = loc[t].peer]

\* An exception leaves the with block: pool.put(conn) with c as it is
RaiseAndPut(t, c, op, exc, args, concurrent) ==
    /\ pool' = Append(pool, c)
    /\ conn' = [conn EXCEPT ![t] = NoConn]
    /\ pc' = [pc EXCEPT ![t] = "idle"]
    /\ last' = [NoLast EXCEPT !.op = op, !.t = t, !.exc = exc, !.args = args,
                              !.concurrent = concurrent, !.peer = loc[t].peer]

\* The threads still inside an add_memory call that raced with thread t's
Rivals(t) ==
    {o \in Threads \ {t} :
        /\ pc[o] \in {"add_write", "add_commit"}
        /\ loc[o].concurrent /\ loc[t].concurrent
        /\ loc[o].a.user_name = loc[t].a.user_name
        /\ loc[o].a.context_hash = loc[t].a.context_hash}

\* Thread t's add_memory call ends with result res; a thread it raced with
\* keeps that result beside its own (for the comparison of the two)
EndAdd(t, res) ==
    loc' = [o \in Threads |->
              IF o = t THEN NoLoc
              ELSE IF o \in Rivals(t) THEN [loc[o] EXCEPT !.peer = Some(res)]
              ELSE loc[o]]

\* Thread t's call ends
End(t) == loc' = [loc EXCEPT ![t] = NoLoc]

----------------------------------------------------------------------------
(* add_memory *)

\* The arguments as add_memory prepares them (lines 138-140)
Prepared(a) ==
    [user_name |-> a.user_name,
     memory_type |-> a.memory_type,
     content |-> a.content,
     importance |-> a.importance,
     is_permanent |-> a.is_permanent,
     context_hash |-> _generate_hash(a.user_name, a.content),
     expires_str |-> IF IsNone(a.expires_at) THEN None ELSE Some(IsoFormat(Get(a.expires_at))),
     metadata_json |-> IF a.metadata = {} THEN None ELSE Some(JsonDumps(a.metadata))]

\* Another thread is inside add_memory for the same owner and fingerprint,
\* between its SELECT, which found no record, and its INSERT
Racing(t, p) ==
    {o \in Threads \ {t} :
        /\ pc[o] = "add_write"
        /\ loc[o].a.user_name = p.user_name
        /\ loc[o].a.context_hash = p.context_hash
        /\ IsNone(loc[o].existing)}

\* A validation that looks at the owner only
Rejected_OwnerOnly(a) == a.user_name = <<>>

\* Line 135: if not user_name or not content
Rejected(a) == a.user_name = <<>> \/ a.content = <<>>

\* Lines 135-151: the validation, pool.get() and the SELECT
add_memory(t, a) ==
    /\ pc[t] = "idle"
    /\ Begin
    /\ IF Rejected(a)
       THEN /\ last' = [NoLast EXCEPT !.op = "add_memory", !.t = t, !.args = a]
            /\ UNCHANGED <<pool, conn, pc, loc>>
       ELSE /\ pool # <<>>
            /\ LET c == Head(pool)
                   p == Prepared(a)
                   existing == FetchOne(SelectExisting(View(c), p.user_name, p.context_hash))
                   rivals == IF IsNone(existing) THEN Racing(t, p) ELSE {}
               IN /\ pool' = Tail(pool)
                  /\ conn' = [conn EXCEPT ![t] = AfterSelect(c)]
                  /\ pc' = [pc EXCEPT ![t] = "add_write"]
                  /\ loc' = [o \in Threads |->
                        IF o = t
                        THEN [op |-> "add_memory", a |-> p, args |-> a,
                              existing |-> IF IsNone(existing) THEN None
                                           ELSE Some(Get(existing).id),
                              memory_id |-> 0,
                              concurrent |-> rivals # {},
                              peer |-> None]
                        ELSE IF o \in rivals THEN [loc[o] EXCEPT !.concurrent = TRUE]
                        ELSE loc[o]]
                  /\ last' = NoLast
    /\ UNCHANGED <<now, db, wdb, short_term_memory, probe, streak>>

\* Lines 153-176: the UPDATE of the record found, or the INSERT, which raises
\* sqlite3.IntegrityError when UNIQUE(user_name, context_hash) is violated
AddWrite(t) ==
    /\ pc[t] = "add_write"
    /\ CanWrite(conn[t], t)
    /\ LET base == Base(conn[t])
           l == loc[t]
       IN IF ~IsNone(l.existing)
          THEN /\ wdb' = UpdateStmt(base, Get(l.existing), l.a.importance, l.a.is_permanent, now)
               /\ conn' = [conn EXCEPT ![t] = Writer]
               /\ pc' = [pc EXCEPT ![t] = "add_commit"]
               /\ loc' = [loc EXCEPT ![t].memory_id = Get(l.existing)]
               /\ last' = NoLast
               /\ UNCHANGED pool
          ELSE IF UniqueViolation(base, l.a.user_name, l.a.context_hash)
          THEN /\ wdb' = base
               /\ RaiseAndPut(t, Writer, "add_memory", "IntegrityError",
                              l.args, l.concurrent)
               /\ EndAdd(t, [ret |-> None, exc |-> "IntegrityError"])
          ELSE /\ wdb' = InsertStmt(base, l.a, now)
               /\ conn' = [conn EXCEPT ![t] = Writer]
               /\ pc' = [pc EXCEPT ![t] = "add_commit"]
               /\ loc' = [loc EXCEPT ![t].memory_id = base.seq + 1]
               /\ last' = NoLast
               /\ UNCHANGED pool
    /\ UNCHANGED <<now, db, short_term_memory, probe, budget, streak>>

\* Lines 178-179: conn.commit(); return memory_id
AddCommit(t) ==
    /\ pc[t] = "add_commit"
    /\ CommitAndPut(t)
    /\ EndAdd(t, [ret |-> Some(loc[t].memory_id), exc |-> ""])
    /\ LET k == <<loc[t].a.user_name, loc[t].a.context_hash>>
       IN IF k \notin DOMAIN streak /\ ~IsNone(loc[t].existing)
          THEN UNCHANGED streak
          ELSE
          streak' = [j \in DOMAIN streak \cup {k} |->
                        IF j # k THEN streak[j]
                        ELSE IF k \in DOMAIN streak
                             THEN [streak[k] EXCEPT !.n = @ + 1]
                             ELSE [n |-> 1, id |-> loc[t].memory_id]]
    /\ last' = [NoLast EXCEPT !.op = "add_memory", !.t = t,
                              !.args = loc[t].args,
                              !.concurrent = loc[t].concurrent,
                              !.peer = loc[t].peer,
                              !.ret = Some(loc[t].memory_id)]
    /\ UNCHANGED <<now, short_term_memory, probe, budget>>

\* The UPDATE or INSERT raises sqlite3.OperationalError: database is locked
AddLocked(t) ==
    /\ pc[t] = "add_write"
    /\ IsLocked(conn[t], t)
    /\ RaiseAndPut(t, AfterLocked(conn[t]), "add_memory", "OperationalError",
                   loc[t].args, loc[t].concurrent)
    /\ EndAdd(t, [ret |-> None, exc |-> "OperationalError"])
    /\ UNCHANGED <<now, db, wdb, short_term_memory, probe, budget, streak>>

----------------------------------------------------------------------------
(* get_memories, delete_memory, cleanup_expired *)

\* get_memories: pool.get(), the SELECT, pool.put(conn)
get_memories(t, user_name, memory_type, limit, include_expired) ==
    /\ pc[t] = "idle"
    /\ Begin
    /\ pool # <<>>
    /\ LET c == Head(pool)
       IN /\ pool' = Append(Tail(pool), AfterSelect(c))
          /\ last' = [NoLast EXCEPT
                !.op = "get_memories", !.t = t,
                !.args = [user_name |-> user_name, memory_type |-> memory_type,
                          limit |-> limit, include_expired |-> include_expired],
                !.rows = SelectMemories(View(c), user_name, memory_type, limit,
                                        include_expired, now)]
    /\ UNCHANGED <<now, db, wdb, conn, pc, loc, short_term_memory, probe, streak>>

\* delete_memory, lines 307-321: pool.get() and the DELETE
delete_memory(t, user_name, memory_type, pattern) ==
    /\ pc[t] = "idle"
    /\ Begin
    /\ pool # <<>>
    /\ CanWrite(Head(pool), t)
    /\ LET base == Base(Head(pool))
           rows == DeleteRows(base, user_name, memory_type, pattern)
       IN /\ wdb' = DeleteStmt(base, rows)
          /\ loc' = [loc EXCEPT ![t] =
                [op |-> "delete_memory",
                 args |-> [user_name |-> user_name, memory_type |-> memory_type,
                           pattern |-> pattern],
                 deleted |-> Cardinality(rows)]]
    /\ pool' = Tail(pool)
    /\ conn' = [conn EXCEPT ![t] = Writer]
    /\ pc' = [pc EXCEPT ![t] = "delete_commit"]
    /\ last' = NoLast
    /\ UNCHANGED <<now, db, short_term_memory, probe, streak>>

\* delete_memory, lines 322-328: conn.commit(); return cursor.rowcount
DeleteCommit(t) ==
    /\ pc[t] = "delete_commit"
    /\ CommitAndPut(t)
    /\ End(t)
    /\ streak' = <<>>
    /\ last' = [NoLast EXCEPT !.op = "delete_memory", !.t = t, !.args = loc[t].args,
                              !.count = loc[t].deleted]
    /\ UNCHANGED <<now, short_term_memory, probe, budget>>

\* The DELETE of delete_memory raises sqlite3.OperationalError
DeleteLocked(t, user_name, memory_type, pattern) ==
    /\ pc[t] = "idle"
    /\ Begin
    /\ pool # <<>>
    /\ IsLocked(Head(pool), t)
    /\ pool' = Append(Tail(pool), AfterLocked(Head(pool)))
    /\ last' = [NoLast EXCEPT !.op = "delete_memory", !.t = t, !.exc = "OperationalError",
                              !.args = [user_name |-> user_name, memory_type |-> memory_type,
                                        pattern |-> pattern]]
    /\ UNCHANGED <<now, db, wdb, conn, pc, loc, short_term_memory, probe, streak>>

\* cleanup_expired, lines 446-452: pool.get() and the DELETE
cleanup_expired(t) ==
    /\ pc[t] = "idle"
    /\ Begin
    /\ pool # <<>>
    /\ CanWrite(Head(pool), t)
    /\ LET base == Base(Head(pool))
           rows == ExpiredRows(base, now)
       IN /\ wdb' = DeleteStmt(base, rows)
          /\ loc' = [loc EXCEPT ![t] =
                [op |-> "cleanup_expired", args |-> <<>>, deleted |-> Cardinality(rows)]]
    /\ pool' = Tail(pool)
    /\ conn' = [conn EXCEPT ![t] = Writer]
    /\ pc' = [pc EXCEPT ![t] = "cleanup_commit"]
    /\ last' = NoLast
    /\ UNCHANGED <<now, db, short_term_memory, probe, streak>>

\* cleanup_expired, lines 453-458: conn.commit(); return cursor.rowcount
CleanupCommit(t) ==
    /\ pc[t] = "cleanup_commit"
    /\ CommitAndPut(t)
    /\ End(t)
    /\ streak' = <<>>
    /\ last' = [NoLast EXCEPT !.op = "cleanup_expired", !.t = t, !.count = loc[t].deleted]
    /\ UNCHANGED <<now, short_term_memory, probe, budget>>

\* The DELETE of cleanup_expired raises sqlite3.OperationalError
CleanupLocked(t) ==
    /\ pc[t] = "idle"
    /\ Begin
    /\ pool # <<>>
    /\ IsLocked(Head(pool), t)
    /\ pool' = Append(Tail(pool), AfterLocked(Head(pool)))
    /\ last' = [NoLast EXCEPT !.op = "cleanup_expired", !.t = t, !.exc = "OperationalError"]
    /\ UNCHANGED <<now, db, wdb, conn, pc, loc, short_term_memory, probe, streak>>

----------------------------------------------------------------------------
(* Conversations, the session buffer, contextual retrieval, build_context *)

\* add_conversation, lines 340-349: the fingerprint, pool.get() and the INSERT
add_conversation(t, user_name, user_message, assistant_response, sentiment) ==
    /\ pc[t] = "idle"
    /\ Begin
    /\ pool # <<>>
    /\ CanWrite(Head(pool), t)
    /\ LET base == Base(Head(pool))
       IN /\ wdb' = InsertConversation(base, user_name, user_message,
                                       assistant_response, sentiment, now)
          /\ loc' = [loc EXCEPT ![t] =
                [op |-> "add_conversation",
                 args |-> [user_name |-> user_name, user_message |-> user_message,
                           assistant_response |-> assistant_response,
                           sentiment |-> sentiment],
                 lastrowid |-> Len(base.conv) + 1]]
    /\ pool' = Tail(pool)
    /\ conn' = [conn EXCEPT ![t] = Writer]
    /\ pc' = [pc EXCEPT ![t] = "conv_commit"]
    /\ last' = NoLast
    /\ UNCHANGED <<now, db, short_term_memory, probe, streak>>

\* add_conversation, lines 351-352: conn.commit(); return cursor.lastrowid
ConvCommit(t) ==
    /\ pc[t] = "conv_commit"
    /\ CommitAndPut(t)
    /\ End(t)
    /\ last' = [NoLast EXCEPT !.op = "add_conversation", !.t = t, !.args = loc[t].args,
                              !.ret = Some(loc[t].lastrowid)]
    /\ UNCHANGED <<now, short_term_memory, probe, budget, streak>>

\* get_recent_conversations, lines 360-379: pool.get(), the SELECT, the
\* decoding of sentiment and the reversal
get_recent_conversations(t, user_name, limit) ==
    /\ pc[t] = "idle"
    /\ Begin
    /\ pool # <<>>
    /\ LET c == Head(pool)
       IN /\ pool' = Append(Tail(pool), AfterSelect(c))
          /\ last' = [NoLast EXCEPT
                !.op = "get_recent_conversations", !.t = t,
                !.args = [user_name |-> user_name, limit |-> limit],
                !.rows = SelectConversations(View(c), user_name, limit)]
    /\ UNCHANGED <<now, db, wdb, conn, pc, loc, short_term_memory, probe, streak>>

\* get_short_term: list(self.short_term_memory.get(user_name, []))
get_short_term(user_name) ==
    IF IsNone(short_term_memory[user_name]) THEN <<>> ELSE Get(short_term_memory[user_name])

\* add_short_term: the deque is created on the owner's first push
add_short_term(t, user_name, content) ==
    /\ pc[t] = "idle"
    /\ Begin
    /\ short_term_memory' = [short_term_memory EXCEPT ![user_name] =
            Some(DequeAppend(get_short_term(user_name),
                             [timestamp |-> IsoFormat(now), content |-> content],
                             max_short_term))]
    /\ last' = [NoLast EXCEPT !.op = "add_short_term", !.t = t,
                              !.args = [user_name |-> user_name, content |-> content]]
    /\ UNCHANGED <<now, db, wdb, pool, conn, pc, loc, probe, streak>>

\* add_short_term as the interpreter runs it under several threads: a
\* thread switch can fall between the test of line 385, the assignment of
\* line 386 and the append of lines 388-391.
\* Line 385: if user_name not in self.short_term_memory
PushTest(t, user_name, content) ==
    /\ pc[t] = "idle"
    /\ Begin
    /\ pc' = [pc EXCEPT ![t] =
            IF IsNone(short_term_memory[user_name]) THEN "push_create" ELSE "push_append"]
    /\ loc' = [loc EXCEPT ![t] =
            [op |-> "add_short_term",
             args |-> [user_name |-> user_name, content |-> content]]]
    /\ last' = NoLast
    /\ UNCHANGED <<now, db, wdb, pool, conn, short_term_memory, probe, streak>>

\* Line 386: self.short_term_memory[user_name] = deque(maxlen=...)
PushCreate(t) ==
    /\ pc[t] = "push_create"
    /\ short_term_memory' = [short_term_memory EXCEPT ![loc[t].args.user_name] = Some(<<>>)]
    /\ pc' = [pc EXCEPT ![t] = "push_append"]
    /\ last' = NoLast
    /\ UNCHANGED <<now, db, wdb, pool, conn, loc, probe, budget, streak>>

\* Lines 388-391: the append to the deque the dictionary holds now
PushAppend(t) ==
    /\ pc[t] = "push_append"
    /\ short_term_memory' = [short_term_memory EXCEPT ![loc[t].args.user_name] =
            Some(DequeAppend(Get(@),
                             [timestamp |-> IsoFormat(now), content |-> loc[t].args.content],
                             max_short_term))]
    /\ pc' = [pc EXCEPT ![t] = "idle"]
    /\ End(t)
    /\ last' = [NoLast EXCEPT !.op = "add_short_term", !.t = t, !.args = loc[t].args]
    /\ UNCHANGED <<now, db, wdb, pool, conn, probe, budget, streak>>

\* A clear that empties the buffer of every owner
clear_short_term_Everyone(t, user_name) ==
    /\ pc[t] = "idle"
    /\ Begin
    /\ short_term_memory' =
          [u \in Users |-> IF IsNone(short_term_memory[u]) THEN None ELSE Some(<<>>)]
    /\ last' = [NoLast EXCEPT !.op = "clear_short_term", !.t = t,
                              !.args = [user_name |-> user_name]]
    /\ UNCHANGED <<now, db, wdb, pool, conn, pc, loc, probe, streak>>

\* clear_short_term: deque.clear() on the owner's deque, when there is one;
\* the deque and its maxlen stay
clear_short_term(t, user_name) ==
    /\ pc[t] = "idle"
    /\ Begin
    /\ short_term_memory' = [short_term_memory EXCEPT ![user_name] =
            IF IsNone(@) THEN None ELSE Some(<<>>)]
    /\ last' = [NoLast EXCEPT !.op = "clear_short_term", !.t = t,
                              !.args = [user_name |-> user_name]]
    /\ UNCHANGED <<now, db, wdb, pool, conn, pc, loc, probe, streak>>

\* get_contextual_memories: get_memories(user_name, limit=100), the keywords,
\* the scores, the sort and the slice
get_contextual_memories(t, user_name, current_message, limit) ==
    /\ pc[t] = "idle"
    /\ Begin
    /\ pool # <<>>
    /\ LET c == Head(pool)
           all_memories == SelectMemories(View(c), user_name, <<>>, 100, FALSE, now)
       IN /\ pool' = Append(Tail(pool), AfterSelect(c))
          /\ last' = [NoLast EXCEPT
                !.op = "get_contextual_memories", !.t = t,
                !.args = [user_name |-> user_name, current_message |-> current_message,
                          limit |-> limit],
                !.rows = ContextualMemories(all_memories, current_message, limit, now)]
    /\ UNCHANGED <<now, db, wdb, conn, pc, loc, short_term_memory, probe, streak>>

\* build_context: get_recent_conversations(limit=3) on one connection,
\* get_contextual_memories(limit=5) on the next, the session buffer, the
\* join and the truncation
build_context(t, user_name, current_message, max_tokens) ==
    /\ pc[t] = "idle"
    /\ Begin
    /\ pool # <<>>
    /\ LET c1 == Head(pool)
           recent == SelectConversations(View(c1), user_name, 3)
           pool1 == Append(Tail(pool), AfterSelect(c1))
           c2 == Head(pool1)
           all_memories == SelectMemories(View(c2), user_name, <<>>, 100, FALSE, now)
           memories == ContextualMemories(all_memories, current_message, 5, now)
           short_term == get_short_term(user_name)
           context == Join(ContextParts(recent, memories, short_term, user_name), <<"\n">>)
       IN /\ pool' = Append(Tail(pool1), AfterSelect(c2))
          /\ last' = [NoLast EXCEPT
                !.op = "build_context", !.t = t,
                !.args = [user_name |-> user_name, current_message |-> current_message,
                          max_tokens |-> max_tokens],
                !.text = Truncate(context, max_tokens)]
    /\ UNCHANGED <<now, db, wdb, conn, pc, loc, short_term_memory, probe, streak>>

\* _calculate_relevance applied to the memory, the keywords and the clock chosen
Score ==
    /\ probe.op = ""
    /\ probe' = [probe EXCEPT
            !.op = "_calculate_relevance",
            !.score = _calculate_relevance(probe.memory, probe.keywords, now)]
    /\ UNCHANGED <<now, db, wdb, pool, conn, pc, loc, short_term_memory, budget, streak, last>>

\* _calculate_relevance applied to the first dictionary chosen
ScoreDict ==
    /\ probe.op = ""
    /\ LET r == RelevanceOfDict(probe.memories[1], probe.keywords, now)
       IN probe' = [probe EXCEPT
                !.op = "_calculate_relevance",
                !.result = [exc |-> r.exc, score |-> r.score, rows |-> <<>>]]
    /\ UNCHANGED <<now, db, wdb, pool, conn, pc, loc, short_term_memory, budget, streak, last>>

\* The scoring loop of get_contextual_memories applied to the dictionaries chosen
RankDict ==
    /\ probe.op = ""
    /\ LET r == RankDicts(probe.memories, probe.keywords, probe.limit, now)
       IN probe' = [probe EXCEPT
                !.op = "get_contextual_memories",
                !.result = [exc |-> r.exc, score |-> 0, rows |-> r.rows]]
    /\ UNCHANGED <<now, db, wdb, pool, conn, pc, loc, short_term_memory, budget, streak, last>>

\* Eight days pass without a call
Sleep ==
    /\ now <= MaxTime
    /\ now' = now + 8 * TicksPerDay
    /\ last' = NoLast
    /\ UNCHANGED <<db, wdb, pool, conn, pc, loc, short_term_memory, probe, budget, streak>>

----------------------------------------------------------------------------
(* The threads of the request handlers: any number of calls, interleaved at *)
(* the statements of each method.                                           *)

Kahve == <<"K", "a", "h", "v", "e">>
kahve_ == <<"k", "a", "h", "v", "e", " ">>
cay == <<"c", "a", "y">>
plan == <<"p", "l", "a", "n">>

Next ==
    \/ Tick
    \/ \E t \in Racers :
        \/ \E a \in [user_name : {<<"A">>},
                     memory_type : {plan},
                     content : {Kahve, kahve_, cay},
                     importance : {5},
                     is_permanent : {FALSE},
                     expires_at : {None, Some(0), Some(MaxTime)},
                     metadata : {{}}] :
              add_memory(t, a)
        \/ AddWrite(t)
        \/ AddCommit(t)
        \/ AddLocked(t)
        \/ get_memories(t, <<"A">>, <<>>, 50, FALSE)
        \/ delete_memory(t, <<"A">>, <<>>, <<"k">>)
        \/ DeleteCommit(t)
        \/ DeleteLocked(t, <<"A">>, <<>>, <<"k">>)
        \/ cleanup_expired(t)
        \/ CleanupCommit(t)
        \/ CleanupLocked(t)

Spec == Started(MaxCalls) /\ [][Next]_vars

----------------------------------------------------------------------------
(* One caller: the calls follow one another, and only the clock moves       *)
(* between the statements of a call.                                        *)

MaxSeqCalls == 3

NextSeq ==
    \/ Tick
    \/ \E a \in [user_name : {<<"A">>},
                 memory_type : {plan},
                 content : {Kahve, kahve_},
                 importance : {5},
                 is_permanent : BOOLEAN,
                 expires_at : {None, Some(0), Some(MaxTime)},
                 metadata : {{}}] :
          add_memory("t1", a)
    \/ AddWrite("t1")
    \/ AddCommit("t1")
    \/ \E inc \in BOOLEAN : get_memories("t1", <<"A">>, <<>>, 50, inc)
    \/ delete_memory("t1", <<"A">>, <<>>, <<"k">>)
    \/ DeleteCommit("t1")
    \/ cleanup_expired("t1")
    \/ CleanupCommit("t1")

SpecSeq == Started(MaxSeqCalls) /\ [][NextSeq]_vars

----------------------------------------------------------------------------
(* Ranking: one caller stores memories and asks for the relevant ones.      *)

MaxRankCalls == 4

su == <<"s", "u">>
KahveQuery == <<"K", "a", "h", "v", "e", "?">>
NextRank ==
    \/ Tick
    \/ Sleep
    \/ \E a \in [user_name : {<<"A">>},
                 memory_type : {plan},
                 content : {Kahve, cay, su},
                 importance : {1, 6},
                 is_permanent : {FALSE},
                 expires_at : {None},
                 metadata : {{}}] :
          add_memory("t1", a)
    \/ AddWrite("t1")
    \/ AddCommit("t1")
    \/ \E q \in {KahveQuery, <<"v", "e">>}, limit \in {2, 10} :
          get_contextual_memories("t1", <<"A">>, q, limit)

SpecRank == Started(MaxRankCalls) /\ [][NextRank]_vars

----------------------------------------------------------------------------
(* Scoring: _calculate_relevance on a memory, a keyword set and a clock.    *)

MaxAccess == 7

kahve == <<"k", "a", "h", "v", "e">>
Kahve_cay == <<"K", "a", "h", "v", "e", " ", "c", "a", "y">>

\* A row of memories as get_memories returns it
ProbeMemory(content, importance, access_count) ==
    [DecodeRow(NewRow(EmptyDb,
                      Prepared([user_name |-> <<"A">>, memory_type |-> plan,
                                content |-> content, importance |-> importance,
                                is_permanent |-> FALSE, expires_at |-> None,
                                metadata |-> {}]),
                      0))
        EXCEPT !.access_count = access_count]

InitScore ==
    /\ Fresh
    /\ budget = 0
    /\ now \in {0, 8 * TicksPerDay - 1, 8 * TicksPerDay, 31 * TicksPerDay - 1, 31 * TicksPerDay}
    /\ probe \in [op : {""},
                  memory : {ProbeMemory(content, importance, access_count) :
                              content \in {Kahve, cay, Kahve_cay},
                              importance \in {1, 5, 10},
                              access_count \in {1, MaxAccess - 1, MaxAccess}},
                  keywords : SUBSET {kahve, cay, su},
                  score : {0}]

SpecScore == InitScore /\ [][Score]_vars

----------------------------------------------------------------------------
(* Context: one caller records turns, memories and session entries and      *)
(* builds the context.                                                      *)

MaxCtxCalls == 5

CtxMessages == {<<"x">>, <<"y">>}
Reply == <<"r">>
chat == <<"c", "h", "a", "t">>

NextCtx ==
    \/ Tick
    \/ \E m \in CtxMessages : add_conversation("t1", <<"A">>, m, Reply, {})
    \/ ConvCommit("t1")
    \/ \E m \in CtxMessages :
          add_short_term("t1", <<"A">>, [type |-> chat, content |-> m])
    \/ \E a \in [user_name : {<<"A">>},
                 memory_type : {plan},
                 content : {Kahve, cay},
                 importance : {5},
                 is_permanent : {FALSE},
                 expires_at : {None},
                 metadata : {{}}] :
          add_memory("t1", a)
    \/ AddWrite("t1")
    \/ AddCommit("t1")
    \/ \E max_tokens \in {0, MaxTokens, 1000} :
          build_context("t1", <<"A">>, KahveQuery, max_tokens)

SpecCtx == Started(MaxCtxCalls) /\ [][NextCtx]_vars

----------------------------------------------------------------------------
(* Session buffer: one caller pushes entries for two owners; the clock      *)
(* stands still.                                                            *)

MaxBufCalls == 12

NextBuf ==
    \/ \E m \in CtxMessages :
          add_short_term("t1", <<"A">>, [type |-> chat, content |-> m])
    \/ add_short_term("t1", <<"B">>, [type |-> chat, content |-> Reply])

SpecBuf == Started(MaxBufCalls) /\ [][NextBuf]_vars

----------------------------------------------------------------------------
(* The store: one caller adds memories for two owners, with rejected        *)
(* arguments among the calls, and queries them.                             *)

MaxStoreCalls == 3

food == <<"f", "o", "o", "d">>
AddCall(user_name, memory_type, content, importance, is_permanent, expires_at, metadata) ==
    [user_name |-> user_name, memory_type |-> memory_type, content |-> content,
     importance |-> importance, is_permanent |-> is_permanent,
     expires_at |-> expires_at, metadata |-> metadata]

NextStore ==
    \/ Tick
    \/ \E a \in {AddCall(<<"A">>, plan, Kahve, 5, FALSE, None, {}),
                 AddCall(<<"A">>, food, kahve_, 9, TRUE, Some(MaxTime), {<<"source", "chat">>}),
                 AddCall(<<"A">>, food, cay, 9, FALSE, None, {}),
                 AddCall(<<"B">>, plan, Kahve, 5, FALSE, None, {}),
                 AddCall(<<"A">>, plan, <<":", "x">>, 5, FALSE, None, {}),
                 AddCall(<<"A", ":">>, plan, <<"x">>, 5, FALSE, None, {}),
                 AddCall(<<>>, plan, Kahve, 5, FALSE, None, {}),
                 AddCall(<<"A">>, plan, <<>>, 5, FALSE, None, {})} :
          add_memory("t1", a)
    \/ AddWrite("t1")
    \/ AddCommit("t1")
    \/ \E u \in Users, memory_type \in {<<>>, plan}, limit \in {1, 50} :
          get_memories("t1", u, memory_type, limit, FALSE)

SpecStore == Started(MaxStoreCalls) /\ [][NextStore]_vars

----------------------------------------------------------------------------
(* The scenario of an allergy and a coffee preference.  A letter that is    *)
(* not ASCII is written as its name in brackets; str.lower() leaves these   *)
(* two letters as they are, and \w matches them.                            *)

MaxE2ECalls == 3

allergy ==
    <<"a", "l", "l", "e", "r", "g", "y">>

food_preference ==
    <<"f", "o", "o", "d", "_", "p", "r", "e", "f", "e", "r", "e", "n", "c",
      "e">>

FindikAlerjisiVar ==
    <<"F", "[dotless i]", "n", "d", "[dotless i]", "k", " ", "a", "l", "e",
      "r", "j", "i", "s", "i", " ", "v", "a", "r">>

KahveSever ==
    <<"K", "a", "h", "v", "e", " ", "s", "e", "v", "e", "r">>

KahveIcmekIstiyorum ==
    <<"k", "a", "h", "v", "e", " ", "i", "[c cedilla]", "m", "e", "k", " ",
      "i", "s", "t", "i", "y", "o", "r", "u", "m">>

NextE2E ==
    \/ Tick
    \/ Sleep
    \/ \E a \in {AddCall(<<"A">>, allergy, FindikAlerjisiVar, 9, TRUE, None, {}),
                 AddCall(<<"A">>, food_preference, KahveSever, 6, TRUE, None, {})} :
          add_memory("t1", a)
    \/ AddWrite("t1")
    \/ AddCommit("t1")
    \/ get_contextual_memories("t1", <<"A">>, KahveIcmekIstiyorum, 5)

SpecE2E == Started(MaxE2ECalls) /\ [][NextE2E]_vars

----------------------------------------------------------------------------
(* Bulk deletion: one caller adds memories for two owners, records turns    *)
(* and deletes by owner, category and pattern.                              *)

MaxDelCalls == 4

NextDel ==
    \/ Tick
    \/ \E a \in {AddCall(<<"A">>, plan, Kahve, 5, FALSE, None, {}),
                 AddCall(<<"A">>, food, cay, 5, FALSE, None, {}),
                 AddCall(<<"B">>, plan, Kahve, 5, FALSE, None, {})} :
          add_memory("t1", a)
    \/ AddWrite("t1")
    \/ AddCommit("t1")
    \/ add_conversation("t1", <<"A">>, <<"x">>, Reply, {})
    \/ ConvCommit("t1")
    \/ \E u \in Users, memory_type \in {<<>>, plan}, pattern \in {<<>>, <<"k">>, <<"a", "y">>,
            <<"_">>} :
          delete_memory("t1", u, memory_type, pattern)
    \/ DeleteCommit("t1")

SpecDel == Started(MaxDelCalls) /\ [][NextDel]_vars

----------------------------------------------------------------------------
(* Conversation history: one caller records turns for two owners, reads    *)
(* them back, and stores, deletes and expires memories in between.          *)

MaxConvCalls == 3

NextConv ==
    \/ Tick
    \/ \E u \in Users, m \in CtxMessages, sentiment \in {{}, {<<"mood", "happy">>}} :
          add_conversation("t1", u, m, Reply, sentiment)
    \/ ConvCommit("t1")
    \/ \E u \in Users, limit \in {1, 2, 5} : get_recent_conversations("t1", u, limit)
    \/ \E a \in {AddCall(<<"A">>, plan, Kahve, 5, FALSE, None, {}),
                 AddCall(<<"A">>, plan, cay, 5, FALSE, Some(0), {})} :
          add_memory("t1", a)
    \/ AddWrite("t1")
    \/ AddCommit("t1")
    \/ delete_memory("t1", <<"A">>, <<>>, <<>>)
    \/ DeleteCommit("t1")
    \/ cleanup_expired("t1")
    \/ CleanupCommit("t1")
    \/ build_context("t1", <<"A">>, KahveQuery, 1000)

SpecConv == Started(MaxConvCalls) /\ [][NextConv]_vars

----------------------------------------------------------------------------
(* Scoring of malformed records: the first dictionary has fields of any     *)
(* kind, the second is a row as the store returns it.                       *)

DictMemory(content, importance, updated_at, access_count) ==
    [content |-> content, importance |-> importance,
     updated_at |-> updated_at, access_count |-> access_count]

InitDict ==
    /\ Fresh
    /\ budget = 0
    /\ now \in {0, 8 * TicksPerDay}
    /\ probe \in
        [op : {""},
         memories :
            {<<m, r>> :
                m \in {DictMemory(PyStr(content), importance, updated_at, PyInt(1)) :
                          content \in {Kahve, cay},
                          importance \in {PyInt(5), PyInt(9), PyStr(<<"7">>),
                                          PyStr(<<"h", "i", "g", "h">>), PyNone, PyAbsent},
                          updated_at \in {PyStamp(CurrentTimestamp(0)),
                                          PyStr(<<"y", "e", "s", "t", "e", "r", "d", "a", "y">>),
                                          PyInt(12), PyNone, PyAbsent}},
                r \in {DictMemory(PyStr(content), PyInt(5),
                                  PyStamp(CurrentTimestamp(0)), PyInt(1)) :
                          content \in {Kahve, su}}},
         keywords : {{}, {kahve}},
         limit : {1, 5},
         result : {[exc |-> "", score |-> 0, rows |-> <<>>]}]

SpecDict == InitDict /\ [][ScoreDict \/ RankDict]_vars

----------------------------------------------------------------------------
(* Concurrent pushes: the threads push entries for two owners.              *)

MaxPushCalls == 3

NextPush ==
    \/ Tick
    \/ \E t \in Racers :
        \/ \E u \in Users, m \in CtxMessages :
              PushTest(t, u, [type |-> chat, content |-> m])
        \/ PushCreate(t)
        \/ PushAppend(t)

SpecPush == Started(MaxPushCalls) /\ [][NextPush]_vars

----------------------------------------------------------------------------
(* Session buffers beside the store: one caller pushes and clears for two   *)
(* owners and stores, deletes and expires memories and records turns in     *)
(* between; the clock stands still.                                         *)

MaxSessionCalls == 13

NextSession ==
    \/ add_short_term("t1", <<"A">>, [type |-> chat, content |-> <<"x">>])
    \/ add_short_term("t1", <<"B">>, [type |-> chat, content |-> Reply])
    \/ \E u \in Users : clear_short_term("t1", u)
    \/ add_memory("t1", AddCall(<<"A">>, plan, Kahve, 5, FALSE, Some(0), {}))
    \/ AddWrite("t1")
    \/ AddCommit("t1")
    \/ delete_memory("t1", <<"A">>, <<>>, <<>>)
    \/ DeleteCommit("t1")
    \/ cleanup_expired("t1")
    \/ CleanupCommit("t1")
    \/ add_conversation("t1", <<"A">>, <<"x">>, Reply, {})
    \/ ConvCommit("t1")

SpecSession == Started(MaxSessionCalls) /\ [][NextSession]_vars

----------------------------------------------------------------------------
(* A memory that matches the query beside one that does not: one caller     *)
(* stores the two, the second any number of times, and asks for the         *)
(* relevant ones.                                                           *)

MaxMatchCalls == 6

CayQuery == <<"c", "a", "y", "?">>

NextMatch ==
    \/ Tick
    \/ Sleep
    \/ \E a \in {AddCall(<<"A">>, plan, Kahve_cay, 1, FALSE, None, {}),
                 AddCall(<<"A">>, plan, su, 10, FALSE, None, {})} :
          add_memory("t1", a)
    \/ AddWrite("t1")
    \/ AddCommit("t1")
    \/ get_contextual_memories("t1", <<"A">>, CayQuery, 2)

SpecMatch == Started(MaxMatchCalls) /\ [][NextMatch]_vars

----------------------------------------------------------------------------
(* The pool under more threads than connections.  A thread that calls       *)
(* pool.get() on an empty pool waits: its call starts when a connection is  *)
(* put back.  A thread that holds a connection runs on (weak fairness of    *)
(* the steps that follow its SELECT).                                       *)

MaxPoolCalls == 6

NextPool ==
    \E t \in Threads :
        \/ add_memory(t, (AddCall(<<"A">>, plan, cay, 5, FALSE, None, {})))
        \/ AddWrite(t)
        \/ AddLocked(t)
        \/ AddCommit(t)
        \/ get_contextual_memories(t, <<"A">>, CayQuery, 5)
        \/ build_context(t, <<"A">>, CayQuery, 1000)

SpecPool ==
    /\ Started(MaxPoolCalls)
    /\ [][NextPool]_vars
    /\ \A t \in Threads : WF_vars(AddWrite(t) \/ AddLocked(t) \/ AddCommit(t))

----------------------------------------------------------------------------
(* Properties *)

\* The rows of database d with owner u and fingerprint h
Keyed(d, u, h) == {r \in d.mem : r.user_name = u /\ r.context_hash = h}

\* The instant a timestamp text denotes is before clock t
Past(ts, t) == FromIsoFormat(ts) < t

(* C1: in every reachable state, committed or inside the open write         *)
(* transaction, at most one memories row exists for an (owner, fingerprint) *)
(* pair, whatever the interleaving of add_memory, delete_memory and         *)
(* cleanup_expired; the fingerprint stored is that of the row's content.    *)
C1_OneRecordPerFingerprint ==
    \A d \in {db, wdb} : \A r1 \in d.mem :
        /\ r1.context_hash = _generate_hash(r1.user_name, r1.content)
        /\ \A r2 \in d.mem :
              (r1.user_name = r2.user_name /\ r1.context_hash = r2.context_hash) => r1 = r2

\* Two threads raced for one fingerprint and the second INSERT was refused
C1_Witness ==
    /\ last.op = "add_memory" /\ last.exc = "IntegrityError" /\ last.concurrent
    /\ Cardinality(Keyed(db, last.args.user_name,
                         _generate_hash(last.args.user_name, last.args.content))) = 1

(* C2: n >= 1 add_memory calls in sequence with the same owner and content, *)
(* starting with the one that creates the record and with no delete or      *)
(* cleanup in between, leave exactly one record for that fingerprint; it    *)
(* has the id every one of the calls returned and access_count = n; and no  *)
(* step moves a record's updated_at backwards.                              *)
C2_RepeatedAddKeepsOneRecord ==
    /\ [](\A k \in DOMAIN streak :
            /\ Cardinality(Keyed(db, k[1], k[2])) = 1
            /\ \A r \in Keyed(db, k[1], k[2]) :
                  r.id = streak[k].id /\ r.access_count = streak[k].n)
    /\ [](LET k == <<last.args.user_name,
                     _generate_hash(last.args.user_name, last.args.content)>>
          IN (last.op = "add_memory" /\ ~IsNone(last.ret) /\ k \in DOMAIN streak)
                => Get(last.ret) = streak[k].id)
    /\ [][\A r \in db.mem : \A q \in db'.mem :
             r.id = q.id => ~TextLess(q.updated_at, r.updated_at)]_vars

\* Three calls with contents that differ in case and trailing blank
C2_Witness ==
    /\ last.op = "add_memory" /\ last.args.content = kahve_
    /\ \E k \in DOMAIN streak : streak[k].n = 3

(* C3: when exactly two add_memory calls, by two threads, with the same     *)
(* owner and fingerprint overlap on a store that holds no such record, both *)
(* complete without an error, both return the same id, and one record with  *)
(* access_count 2 is stored.                                                *)
C3_ConcurrentAddIsAtomic ==
    (last.op = "add_memory" /\ last.concurrent /\ ~IsNone(last.peer)
        /\ budget = MaxCalls - 2)
    => /\ last.exc = "" /\ Get(last.peer).exc = ""
       /\ last.ret = Get(last.peer).ret
       /\ Cardinality(db.mem) = 1
       /\ \A r \in db.mem : r.id = Get(last.ret) /\ r.access_count = 2

(* C4: get_memories(owner, include_expired) returns, when the limit does    *)
(* not cut the result: a record whose expires_at is in the past only with   *)
(* include_expired, whatever its is_permanent; every other record of the    *)
(* owner in both cases.                                                     *)
C4_ExpiredHiddenFromPlainQuery ==
    last.op = "get_memories" =>
        LET owned == {r \in db.mem :
                         /\ r.user_name = last.args.user_name
                         /\ (last.args.memory_type # <<>>
                                => r.memory_type = last.args.memory_type)}
            ids == {last.rows[i].id : i \in DOMAIN last.rows}
        IN Cardinality(owned) <= last.args.limit =>
              \A r \in owned :
                 IF ~IsNone(r.expires_at) /\ Past(Get(r.expires_at), now)
                 THEN (r.id \in ids) = last.args.include_expired
                 ELSE r.id \in ids

(* C5: cleanup_expired never removes a record whose is_permanent is true.   *)
C5_CleanupKeepsPermanent ==
    [][(last'.op = "cleanup_expired" /\ last'.exc = "")
          => \A r \in db.mem : r.is_permanent => r \in db'.mem]_vars

(* C6: in any interleaving with the other calls, a cleanup_expired that     *)
(* returns has removed only records whose expires_at is set and before the  *)
(* clock, has changed or added none, and returns the number it removed; one *)
(* that raises has removed nothing.                                         *)
C6_CleanupRemovesOnlyExpired ==
    [][last'.op = "cleanup_expired" =>
          /\ db'.mem \subseteq db.mem
          /\ \A r \in db.mem \ db'.mem :
                ~IsNone(r.expires_at) /\ Past(Get(r.expires_at), now')
          /\ IF last'.exc = ""
             THEN last'.count = Cardinality(db.mem \ db'.mem)
             ELSE db' = db]_vars

\* A cleanup removed a record and kept another whose expiry is set
C6_Witness ==
    /\ last.op = "cleanup_expired" /\ last.exc = "" /\ last.count >= 1
    /\ \E r \in db.mem : ~IsNone(r.expires_at)

\* a comes before b in the order of get_memories
StoreBefore(a, b) ==
    \/ a.importance > b.importance
    \/ a.importance = b.importance /\ TextLess(b.last_accessed, a.last_accessed)

(* C7: when the query has a keyword, get_contextual_memories(owner, query,  *)
(* limit) returns min(limit, number of candidates) of the candidates, in    *)
(* non-increasing order of score, no candidate left out scores higher than  *)
(* one returned, and of two results with the same score the one that is     *)
(* earlier in the store's order (importance descending, then last access    *)
(* descending) comes first.                                                 *)
C7_RankedByScoreThenStoreOrder ==
    (/\ last.op = "get_contextual_memories"
     /\ _extract_keywords(last.args.current_message) # {})
    => LET keywords == _extract_keywords(last.args.current_message)
           rows == last.rows
           candidates == SelectMemories(db, last.args.user_name, <<>>, 100, FALSE, now)
           score(m) == _calculate_relevance(m, keywords, now)
       IN /\ Len(rows) <= last.args.limit
          /\ Len(rows) = Min(last.args.limit, Len(candidates))
          /\ Range(rows) \subseteq Range(candidates)
          /\ \A i, j \in DOMAIN rows :
                i < j => /\ rows[i] # rows[j]
                         /\ score(rows[i]) >= score(rows[j])
                         /\ score(rows[i]) = score(rows[j]) => ~StoreBefore(rows[j], rows[i])
          /\ \A m \in Range(candidates) \ Range(rows) :
                \A i \in DOMAIN rows : score(rows[i]) >= score(m)

\* Three results: the keyword match first against the store's order, then
\* two of equal score with the more important one, updated earlier, first
C7_Witness ==
    /\ last.op = "get_contextual_memories"
    /\ last.args.current_message = KahveQuery
    /\ Len(last.rows) = 3
    /\ LET score(m) == _calculate_relevance(m, _extract_keywords(KahveQuery), now)
       IN /\ score(last.rows[1]) > score(last.rows[2])
          /\ StoreBefore(last.rows[2], last.rows[1])
          /\ score(last.rows[2]) = score(last.rows[3])
          /\ last.rows[2].importance > last.rows[3].importance
          /\ TextLess(last.rows[2].last_accessed, last.rows[3].last_accessed)

(* C8: _calculate_relevance returns 3.0 for each keyword that occurs in the *)
(* lowercased content, plus 1.5 for each of them the content starts with,   *)
(* plus importance/10*2, plus 2.0 when updated_at is at most 7 whole days   *)
(* old, 1.0 when at most 30 and 0 otherwise, plus min(3.0, 0.5 *            *)
(* access_count); the sum is neither normalised nor capped (in tenths).     *)
C8_ScoreIsTheSumOfItsParts ==
    probe.op = "_calculate_relevance"
    => LET content == LowerText(probe.memory.content)
           found == {k \in probe.keywords : Contains(content, k)}
           leading == {k \in found : StartsWith(content, k)}
           age == now - FromIsoFormat(probe.memory.updated_at)
           recency == IF age < 8 * TicksPerDay THEN 20
                      ELSE IF age < 31 * TicksPerDay THEN 10 ELSE 0
           frequency == IF 5 * probe.memory.access_count < 30
                        THEN 5 * probe.memory.access_count ELSE 30
       IN probe.score = 30 * Cardinality(found) + 15 * Cardinality(leading)
                          + 2 * probe.memory.importance + recency + frequency

\* A score above 10.0: two keywords found, the last half day of the seventh
\* day, the access bonus at its cap
C8_Witness ==
    /\ probe.op = "_calculate_relevance"
    /\ probe.score > 100
    /\ probe.keywords = {kahve, cay, su}
    /\ probe.memory.content = Kahve_cay
    /\ now = 8 * TicksPerDay - 1
    /\ probe.memory.access_count = MaxAccess

(* C9: the text build_context returns is at most max_tokens * 4 characters  *)
(* plus the three of the marker "..." long; when the joined text is longer  *)
(* than max_tokens * 4 it is the first max_tokens * 4 characters of it      *)
(* followed by the marker, otherwise the joined text itself.                *)
C9_ContextLengthBounded ==
    last.op = "build_context"
    => LET u == last.args.user_name
           memories ==
               ContextualMemories(SelectMemories(db, u, <<>>, 100, FALSE, now),
                                  last.args.current_message, 5, now)
           full == Join(ContextParts(SelectConversations(db, u, 3), memories,
                                     get_short_term(u), u), <<"\n">>)
           maxChars == last.args.max_tokens * 4
       IN /\ Len(last.text) <= maxChars + 3
          /\ IF Len(full) > maxChars
             THEN last.text = SubSeq(full, 1, maxChars) \o <<".", ".", ".">>
             ELSE last.text = full

\* A context cut inside its second section
C9_Witness ==
    /\ last.op = "build_context"
    /\ last.args.max_tokens = MaxTokens
    /\ Len(last.text) = MaxTokens * 4 + 3
    /\ db.conv # <<>>
    /\ db.mem # {}

\* The turns of an owner in the order add_conversation recorded them
TurnsOf(d, user_name) == SelectSeq(d.conv, LAMBDA r : r.user_name = user_name)

(* C10: the text of build_context is, before the truncation, the lines of   *)
(* (a) the header of the recent conversation and the last 3 turns recorded, *)
(* oldest first, a line of the user and a line of the assistant each, (b)   *)
(* the header of the relevant memories and at most 5 bullets, (c) the       *)
(* header of the current session and the last 3 entries of the session      *)
(* buffer, in this order; a section without entries contributes no line.    *)
C10_SectionsInFixedOrder ==
    last.op = "build_context"
    => LET u == last.args.user_name
           turns == LastN(TurnsOf(db, u), 3)
           memories ==
               ContextualMemories(SelectMemories(db, u, <<>>, 100, FALSE, now),
                                  last.args.current_message, 5, now)
           session == LastN(get_short_term(u), 3)
           a == IF turns = <<>> THEN <<>>
                ELSE <<HeaderRecent>>
                     \o [i \in 1..(2 * Len(turns)) |->
                            IF i % 2 = 1
                            THEN u \o <<":", " ">> \o turns[(i + 1) \div 2].user_message
                            ELSE Asena \o turns[i \div 2].assistant_response]
           b == IF memories = <<>> THEN <<>>
                ELSE <<HeaderMemories>>
                     \o [i \in DOMAIN memories |-> <<"-", " ">> \o memories[i].content]
           c == IF session = <<>> THEN <<>>
                ELSE <<HeaderSession>>
                     \o [i \in DOMAIN session |->
                            <<"-", " ">> \o StrDict(session[i].content)]
       IN /\ Len(memories) <= 5
          /\ last.text = Truncate(Join(a \o b \o c, <<"\n">>), last.args.max_tokens)

(* C11: an owner's session buffer never holds more than max_short_term      *)
(* entries; a push appends the entry and, when the buffer was full, drops   *)
(* the oldest one, the others keeping their order; so after n pushes, all   *)
(* for one owner, the buffer holds min(n, max_short_term) entries.          *)
C11_SessionBufferBounded ==
    /\ [](\A u \in Users : Len(get_short_term(u)) <= max_short_term)
    /\ [](IsNone(short_term_memory[<<"B">>])
            => Len(get_short_term(<<"A">>)) = Min(MaxBufCalls - budget, max_short_term))
    /\ [][\A u \in Users :
            (last'.op = "add_short_term" /\ last'.args.user_name = u)
            => LET pushed == Append(get_short_term(u),
                                    [timestamp |-> IsoFormat(now),
                                     content |-> last'.args.content])
                   kept == IF Len(pushed) > max_short_term
                           THEN SubSeq(pushed, Len(pushed) - max_short_term + 1, Len(pushed))
                           ELSE pushed
               IN short_term_memory'[u] = Some(kept)]_vars

\* Two pushes more than the capacity, all for owner A
C11_Witness ==
    /\ last.op = "add_short_term"
    /\ IsNone(short_term_memory[<<"B">>])
    /\ budget = MaxBufCalls - (max_short_term + 2)
    /\ Len(get_short_term(<<"A">>)) = max_short_term

(* C12: no call of a public method (add_memory, get_memories,               *)
(* get_contextual_memories, delete_memory, add_conversation,                *)
(* get_recent_conversations, build_context, cleanup_expired) ends with an   *)
(* exception: a failure of the storage is caught inside the method.         *)
C12_NoExceptionPropagates ==
    last.op \in {"add_memory", "get_memories", "get_contextual_memories",
                 "delete_memory", "add_conversation", "get_recent_conversations",
                 "build_context", "cleanup_expired"}
    => last.exc = ""

(* C13: an add_memory call with an empty owner or an empty content returns  *)
(* None, raises nothing and leaves the database, the open transaction and   *)
(* the connections as they were.                                            *)
C13_EmptyArgumentsRejected ==
    [][(/\ last'.op = "add_memory"
        /\ (last'.args.user_name = <<>> \/ last'.args.content = <<>>))
       => /\ last'.ret = None
          /\ last'.exc = ""
          /\ db' = db /\ wdb' = wdb
          /\ pool' = pool /\ conn' = conn]_vars

\* The third call is rejected for its empty content; the store holds a record
C13_Witness ==
    /\ last.op = "add_memory"
    /\ last.args.content = <<>>
    /\ budget = MaxStoreCalls - 3
    /\ Cardinality(db.mem) = 1

\* The content as the fingerprint sees it: lowercased, surrounding blanks off
Normalised(content) == Strip(LowerText(content))

(* C14: every add_memory call that returns an id returns the id of the      *)
(* record of its owner whose content equals the call's content after        *)
(* lowercasing and stripping, and the store holds one record per owner and  *)
(* normalised content, each with an id of its own: two calls of one owner   *)
(* meet in one record exactly when their normalised contents are equal      *)
(* ("Kahve" and "kahve " do), and calls of different owners never do.       *)
C14_FingerprintIsNormalisedContent ==
    /\ \A r1, r2 \in db.mem :
          /\ (r1.user_name = r2.user_name
                /\ Normalised(r1.content) = Normalised(r2.content)) => r1 = r2
          /\ r1.id = r2.id => r1 = r2
          /\ ~(r1.user_name = r2.user_name /\ r1.content = Kahve /\ r2.content = kahve_)
    /\ (last.op = "add_memory" /\ ~IsNone(last.ret))
       => \E r \in db.mem :
             /\ r.id = Get(last.ret)
             /\ r.user_name = last.args.user_name
             /\ Normalised(r.content) = Normalised(last.args.content)

\* "Kahve" and "kahve " of owner A met in one record, "Kahve" of owner B is
\* another one
C14_Witness ==
    /\ last.op = "add_memory"
    /\ Cardinality(db.mem) = 2
    /\ \E r \in db.mem : r.user_name = <<"A">> /\ r.access_count = 2
    /\ \E r \in db.mem : r.user_name = <<"B">> /\ r.content = Kahve

(* C15: the UPDATE of an add_memory call that found a record sets the       *)
(* record's importance and is_permanent to the call's values, sets          *)
(* updated_at and last_accessed to the current time, adds 1 to              *)
(* access_count, and leaves the id, owner, category, content, fingerprint,  *)
(* created_at, expires_at and metadata of the record, and every other       *)
(* record, as they were, whatever category, expires_at and metadata the     *)
(* call passes; the commit stores just that and the call returns the id.    *)
C15_HitUpdatesFiveFieldsOnly ==
    /\ [][\A t \in Threads :
            (pc[t] = "add_write" /\ pc'[t] = "add_commit" /\ ~IsNone(loc[t].existing))
            => \E r \in db.mem, q \in wdb'.mem :
                  /\ r.id = Get(loc[t].existing)
                  /\ wdb'.mem \ {q} = db.mem \ {r}
                  /\ q.id = r.id
                  /\ q.user_name = r.user_name
                  /\ q.memory_type = r.memory_type
                  /\ q.content = r.content
                  /\ q.context_hash = r.context_hash
                  /\ q.created_at = r.created_at
                  /\ q.expires_at = r.expires_at
                  /\ q.metadata = r.metadata
                  /\ q.importance = loc[t].args.importance
                  /\ q.is_permanent = loc[t].args.is_permanent
                  /\ q.access_count = r.access_count + 1
                  /\ q.updated_at = CurrentTimestamp(now)
                  /\ q.last_accessed = CurrentTimestamp(now)
                  /\ loc'[t].memory_id = r.id]_vars
    /\ [][\A t \in Threads :
            (pc[t] = "add_commit" /\ pc'[t] = "idle")
            => /\ db' = wdb
               /\ last'.op = "add_memory"
               /\ last'.args = loc[t].args
               /\ last'.ret = Some(loc[t].memory_id)]_vars

\* "kahve " with another category, expiry and metadata met the record of
\* "Kahve" at a later time
C15_Witness ==
    /\ last.op = "add_memory"
    /\ last.args.memory_type = food
    /\ last.args.content = kahve_
    /\ \E r \in db.mem :
          /\ r.id = Get(last.ret)
          /\ r.memory_type = plan /\ r.content = Kahve
          /\ IsNone(r.expires_at) /\ IsNone(r.metadata)
          /\ r.importance = 9 /\ r.is_permanent
          /\ r.access_count = 2
          /\ TextLess(r.created_at, r.updated_at)

(* C16: on a store without expired records, get_memories(owner, category,   *)
(* limit) returns min(limit, number of matching records) distinct records,  *)
(* all of them owned by owner and, when a category is given, of that        *)
(* category, in the order importance descending, then last_accessed         *)
(* descending; no matching record left out comes before a returned one in   *)
(* that order.                                                              *)
C16_QueryFiltersOrdersAndLimits ==
    (/\ last.op = "get_memories"
     /\ \A r \in db.mem : IsNone(r.expires_at) \/ ~Past(Get(r.expires_at), now))
    => LET a == last.args
           rows == last.rows
           matching ==
               {DecodeRow(r) : r \in
                   {r \in db.mem :
                       /\ r.user_name = a.user_name
                       /\ (a.memory_type # <<>> => r.memory_type = a.memory_type)}}
       IN /\ Range(rows) \subseteq matching
          /\ Len(rows) <= a.limit
          /\ Len(rows) = Min(a.limit, Cardinality(matching))
          /\ \A i, j \in DOMAIN rows :
                i < j => rows[i] # rows[j] /\ ~StoreBefore(rows[j], rows[i])
          /\ \A m \in matching \ Range(rows) :
                \A i \in DOMAIN rows : ~StoreBefore(m, rows[i])

\* Limit 1 on two records of the owner: the more important one is returned,
\* the one left out was accessed later
C16_Witness ==
    /\ last.op = "get_memories"
    /\ last.args.limit = 1
    /\ Len(last.rows) = 1
    /\ \E r \in db.mem :
          /\ r.user_name = last.args.user_name
          /\ r.importance < last.rows[1].importance
          /\ TextLess(last.rows[1].last_accessed, r.last_accessed)

(* C17: when the query yields no keyword, get_contextual_memories returns   *)
(* the first limit entries of the owner's non-expired memories (at most     *)
(* 100) in the order most recently updated first.                           *)
C17_FallbackIsMostRecentFirst ==
    (/\ last.op = "get_contextual_memories"
     /\ _extract_keywords(last.args.current_message) = {})
    => LET rows == last.rows
           recent ==
               {DecodeRow(r) : r \in
                   {r \in db.mem :
                       /\ r.user_name = last.args.user_name
                       /\ (IsNone(r.expires_at) \/ ~Past(Get(r.expires_at), now))}}
       IN /\ Range(rows) \subseteq recent
          /\ Len(rows) = Min(last.args.limit, Min(100, Cardinality(recent)))
          /\ \A i, j \in DOMAIN rows :
                i < j => ~TextLess(rows[i].updated_at, rows[j].updated_at)
          /\ \A m \in recent \ Range(rows) :
                \A i \in DOMAIN rows : ~TextLess(rows[i].updated_at, m.updated_at)

(* C18: of two candidate memories of the owner with equal keyword score,    *)
(* equal importance and equal access bonus, the one updated later is ranked *)
(* before the other by get_contextual_memories: when the earlier one is in  *)
(* the result, the later one is too, at a smaller index.                    *)
C18_MoreRecentRanksFirst ==
    (/\ last.op = "get_contextual_memories"
     /\ _extract_keywords(last.args.current_message) # {})
    => LET keywords == _extract_keywords(last.args.current_message)
           rows == last.rows
           candidates ==
               Range(SelectMemories(db, last.args.user_name, <<>>, 100, FALSE, now))
           keyword(m) == KeywordScore(LowerText(m.content), keywords)
           access(m) == Min(30, 5 * m.access_count)
       IN \A m1, m2 \in candidates :
             (/\ keyword(m1) = keyword(m2)
              /\ m1.importance = m2.importance
              /\ access(m1) = access(m2)
              /\ FromIsoFormat(m2.updated_at) < FromIsoFormat(m1.updated_at))
             => \A j \in DOMAIN rows :
                   rows[j] = m2 => \E i \in DOMAIN rows : i < j /\ rows[i] = m1

\* Two results that differ in updated_at only: the one of this week scores
\* higher than the one updated more than 7 days ago
C18_Witness ==
    /\ last.op = "get_contextual_memories"
    /\ last.args.current_message = KahveQuery
    /\ Len(last.rows) = 2
    /\ last.rows[1].importance = last.rows[2].importance
    /\ last.rows[1].access_count = last.rows[2].access_count
    /\ ~Contains(LowerText(last.rows[1].content), kahve)
    /\ ~Contains(LowerText(last.rows[2].content), kahve)
    /\ RecencyBonus(last.rows[1].updated_at, now) > RecencyBonus(last.rows[2].updated_at, now)

(* C19: on a store that holds just the allergy memory (importance 9, added  *)
(* first) and the coffee memory (importance 6, added second), each added    *)
(* once, get_contextual_memories("A", "kahve içmek istiyorum", 5) returns   *)
(* both, the coffee memory before the allergy memory.                       *)
C19_CoffeeBeforeAllergy ==
    (/\ last.op = "get_contextual_memories"
     /\ Cardinality(db.mem) = 2
     /\ \E r \in db.mem : r.id = 1 /\ r.content = FindikAlerjisiVar /\ r.access_count = 1
     /\ \E r \in db.mem : r.id = 2 /\ r.content = KahveSever /\ r.access_count = 1)
    => /\ Len(last.rows) = 2
       /\ last.rows[1].content = KahveSever
       /\ last.rows[1].memory_type = food_preference
       /\ last.rows[2].content = FindikAlerjisiVar
       /\ last.rows[2].memory_type = allergy
       /\ last.rows[2].importance > last.rows[1].importance

\* The scenario run within a week: the scores are 8.2 and 4.3
C19_Witness ==
    /\ last.op = "get_contextual_memories"
    /\ Len(last.rows) = 2
    /\ last.rows[1].id = 2 /\ last.rows[1].content = KahveSever
    /\ last.rows[2].id = 1 /\ last.rows[2].content = FindikAlerjisiVar
    /\ _calculate_relevance(last.rows[1], _extract_keywords(KahveIcmekIstiyorum), now) = 82
    /\ _calculate_relevance(last.rows[2], _extract_keywords(KahveIcmekIstiyorum), now) = 43

(* C20: a delete_memory call removes exactly the records of the owner that  *)
(* have the category, when one is given, and contain the pattern as a       *)
(* substring, when one is given; it returns their number and leaves every   *)
(* other record and all conversation turns as they were.                    *)
C20_DeletesExactlyTheMatches ==
    [][\A t \in Threads :
        (pc[t] = "delete_commit" /\ pc'[t] = "idle")
        => LET a == loc[t].args
               removed ==
                   {r \in db.mem :
                       /\ r.user_name = a.user_name
                       /\ (a.memory_type # <<>> => r.memory_type = a.memory_type)
                       /\ (a.pattern # <<>> => Contains(r.content, a.pattern))}
           IN /\ db'.mem = db.mem \ removed
              /\ last'.count = Cardinality(removed)
              /\ db'.conv = db.conv]_vars

(* C21: an add_conversation call that returns has added exactly one turn,   *)
(* with the call's owner, message, response and sentiment, after the turns  *)
(* on record, also when a turn of that owner with that message is on        *)
(* record; no other step (of add_memory, delete_memory, cleanup_expired,    *)
(* build_context, get_recent_conversations) changes the turns on record.    *)
C21_HistoryIsAppendOnly ==
    [][IF \E t \in Threads : pc[t] = "conv_commit" /\ pc'[t] = "idle"
       THEN /\ Len(db'.conv) = Len(db.conv) + 1
            /\ SubSeq(db'.conv, 1, Len(db.conv)) = db.conv
            /\ LET new == db'.conv[Len(db'.conv)]
                   a == last'.args
               IN /\ new.user_name = a.user_name
                  /\ new.user_message = a.user_message
                  /\ new.assistant_response = a.assistant_response
                  /\ new.sentiment =
                        IF a.sentiment = {} THEN None ELSE Some(JsonDumps(a.sentiment))
                  /\ last'.ret = Some(new.id)
       ELSE db'.conv = db.conv]_vars

\* The second of two turns with the same owner and message is recorded
C21_Witness ==
    /\ last.op = "add_conversation"
    /\ Len(db.conv) >= 2
    /\ \E i \in 1..(Len(db.conv) - 1) :
          /\ db.conv[i].user_name = db.conv[Len(db.conv)].user_name
          /\ db.conv[i].user_message = db.conv[Len(db.conv)].user_message
          /\ db.conv[i].context_hash = db.conv[Len(db.conv)].context_hash

(* C22: get_recent_conversations(owner, limit) returns the min(limit, n)    *)
(* turns of the owner that were added last, the oldest of them first; with  *)
(* limit 1 it returns the turn added last.                                  *)
C22_RecentTurnsOldestFirst ==
    last.op = "get_recent_conversations"
    => LET turns == LastN(TurnsOf(db, last.args.user_name), last.args.limit)
       IN /\ Len(last.rows) = Min(last.args.limit, Len(TurnsOf(db, last.args.user_name)))
          /\ Len(last.rows) = Len(turns)
          /\ \A i \in DOMAIN last.rows : last.rows[i].id = turns[i].id

(* C23: each time a record is returned by get_memories or by                *)
(* get_contextual_memories, its access_count is incremented and its         *)
(* last_accessed is set to the time of the call.                            *)
C23_RetrievalCountsAsAccess ==
    [][last'.op \in {"get_memories", "get_contextual_memories"}
       => \A i \in DOMAIN last'.rows :
             \E r \in db.mem, q \in db'.mem :
                /\ r.id = last'.rows[i].id
                /\ q.id = r.id
                /\ q.access_count = r.access_count + 1
                /\ q.last_accessed = CurrentTimestamp(now)]_vars

(* C24: _calculate_relevance raises nothing on a record whose updated_at is *)
(* not a timestamp or whose importance is missing, None or not a number:    *)
(* that term is 0 and the other terms are added; get_contextual_memories    *)
(* on a list with such a record raises nothing and returns min(limit, n)    *)
(* records.                                                                 *)
C24_MalformedFieldContributesZero ==
    LET m == probe.memories[1]
        importance == m.importance
        isInt == importance.type = "int"
        isDigits == importance.type = "str" /\ IsNone(importance.stamp)
                        /\ IsDigits(importance.str)
        importanceTerm ==
            IF isInt THEN 2 * importance.int
            ELSE IF isDigits THEN 2 * DigitsVal(importance.str)
            ELSE 0
        updated_at == m.updated_at
        recencyTerm ==
            IF updated_at.type = "str" /\ ~IsNone(updated_at.stamp)
            THEN RecencyBonus(Get(updated_at.stamp), now)
            ELSE 0
    IN /\ probe.op = "_calculate_relevance"
          => /\ probe.result.exc = ""
             /\ probe.result.score =
                   KeywordScore(LowerText(m.content.str), probe.keywords)
                      + importanceTerm + recencyTerm + Min(30, 5 * m.access_count.int)
       /\ probe.op = "get_contextual_memories"
          => /\ probe.result.exc = ""
             /\ Len(probe.result.rows) = Min(probe.limit, Len(probe.memories))

(* C25: when every add_short_term call of the threads has returned, and no  *)
(* more calls were made than a buffer holds, the buffers of the owners hold *)
(* one entry for each call: no push is lost.                                *)
C25_NoPushIsLost ==
    (\A t \in Threads : pc[t] = "idle")
    => Len(get_short_term(<<"A">>)) + Len(get_short_term(<<"B">>))
          = Min(MaxPushCalls - budget, max_short_term)

(* C26: add_short_term(u, x) appends to u's buffer and clear_short_term(u)  *)
(* empties it, and both leave the buffers of the other owners, the memory   *)
(* records and the turns as they were; no step of add_memory, delete_memory,*)
(* cleanup_expired or add_conversation changes a buffer; a buffer never     *)
(* holds more than max_short_term entries, also after a clear.              *)
C26_SessionBufferIsIndependent ==
    /\ [](\A u \in Users : Len(get_short_term(u)) <= max_short_term)
    /\ [][/\ last'.op = "add_short_term"
             => LET u == last'.args.user_name
                    entry == [timestamp |-> IsoFormat(now), content |-> last'.args.content]
                IN /\ short_term_memory'[u] =
                         Some(LastN(Append(get_short_term(u), entry), max_short_term))
                   /\ \A o \in Users \ {u} : short_term_memory'[o] = short_term_memory[o]
                   /\ db' = db /\ wdb' = wdb
          /\ last'.op = "clear_short_term"
             => LET u == last'.args.user_name
                IN /\ short_term_memory'[u] \in {None, Some(<<>>)}
                   /\ \A o \in Users \ {u} : short_term_memory'[o] = short_term_memory[o]
                   /\ db' = db /\ wdb' = wdb
          /\ last'.op \notin {"add_short_term", "clear_short_term"}
             => short_term_memory' = short_term_memory]_vars

\* Owner A's buffer is cleared; owner B's buffer, a memory record and a
\* turn stay
C26_Witness ==
    /\ last.op = "clear_short_term"
    /\ last.args.user_name = <<"A">>
    /\ short_term_memory[<<"A">>] = Some(<<>>)
    /\ Len(get_short_term(<<"B">>)) > 0
    /\ db.mem # {}
    /\ db.conv # <<>>

(* C27: when add_memory, called without expires_at or with an expires_at    *)
(* that lies ahead, has returned an id, the get_memories call of the owner  *)
(* that follows it (include_expired false, no category, a limit that the    *)
(* owner's records do not exceed) returns the record with that id.          *)
C27_StoredMemoryIsVisible ==
    [][(/\ last.op = "add_memory"
        /\ ~IsNone(last.ret)
        /\ (IsNone(last.args.expires_at) \/ Get(last.args.expires_at) > now)
        /\ last'.op = "get_memories"
        /\ last'.args.user_name = last.args.user_name
        /\ last'.args.memory_type = <<>>
        /\ ~last'.args.include_expired
        /\ Cardinality({r \in db.mem : r.user_name = last.args.user_name})
              <= last'.args.limit)
       => \E i \in DOMAIN last'.rows : last'.rows[i].id = Get(last.ret)]_vars

(* C28: in the result of get_contextual_memories for a query with a         *)
(* keyword, no memory whose content contains none of the keywords comes     *)
(* before a memory whose content contains one.                              *)
C28_MatchesRankFirst ==
    (last.op = "get_contextual_memories"
        /\ _extract_keywords(last.args.current_message) # {})
    => LET keywords == _extract_keywords(last.args.current_message)
           Matches(r) == \E k \in keywords : Contains(LowerText(r.content), k)
       IN \A i, j \in DOMAIN last.rows :
             (Matches(last.rows[i]) /\ ~Matches(last.rows[j])) => i < j

(* C29: no connection in the pool has a transaction open: every write has   *)
(* committed or rolled back before its connection was put back, also when   *)
(* its statement raised.                                                    *)
C29_PooledConnectionsAreClean ==
    \A i \in DOMAIN pool : pool[i].mode = "auto"

(* C30: the idle connections and the connections checked out are always    *)
(* max_connections together, and whenever the pool is empty a connection    *)
(* is put back later, so that a thread waiting in get_connection obtains    *)
(* one.                                                                     *)
C30_PoolIsConservedAndLive ==
    /\ [](Len(pool) + Cardinality({t \in Threads : conn[t].mode # "none"}) = max_connections)
    /\ (pool = <<>>) ~> (pool # <<>>)

\* Five threads hold the five connections while a sixth has a call to make
C30_Witness ==
    /\ pool = <<>>
    /\ Cardinality({t \in Threads : conn[t].mode # "none"}) = max_connections
    /\ budget > 0
    /\ \E t \in Threads : pc[t] = "idle"

====
